---- MODULE Spec2Model ----
(***************************************************************************)
(* Model of the AI test-case generation helpers of test_gen_backend:      *)
(*   - callGeminiWithRetry        (bounded retry around the model call)   *)
(*   - parseGeminiJSON / parseTestScenariosJSON (text -> records)         *)
(*   - validateAndCleanTestCases[Enhanced] (normalisation and filtering)  *)
(*   - the OAuth handlers over the shared oauth2Client, ProtectRoute,     *)
(*     appendTestCasesToExistingSheet and processCustomPrompt             *)
(* Each part has its own specification (RetrySpec, GenerateSpec, NormSpec,*)
(* ChainSpec, ConcSpec, ParseSpec, PipelineSpec, AuthSpec, AppendSpec,    *)
(* ArrangeSpec, ProtectSpec); the variables of the other parts stay at    *)
(* their idle values.                                                     *)
(***************************************************************************)
EXTENDS Integers, Sequences, FiniteSets, TLC

VARIABLES
    \* ---- callGeminiWithRetry ----
    maxRetries,   \* parameter maxRetries
    baseDelay,    \* parameter baseDelay (ms)
    attempt,      \* loop variable attempt
    lastError,    \* local lastError
    pc,           \* position: "start", "call", "wait", "returned", "threw", "idle";
                  \* "responded" once the caller has sent its response
    calls,        \* number of model.generateContent invocations so far
    errors,       \* errors raised by the attempts, in order
    delays,       \* the waits performed (ms), in order
    successAt,    \* number of the call that succeeded, 0 if none
    returned,     \* attempt whose text was returned, 0 if none
    thrown,       \* the value thrown by the function
    \* ---- validateAndCleanTestCasesEnhanced ----
    testCases,            \* parameter testCases: the candidate records
    existingTestCases,    \* parameter existingTestCases
    cleaned,              \* local cleaned: the normalised records
    uniqueCases,          \* local uniqueCases: the records accepted so far
    seenSummaries,        \* local Set seenSummaries
    seenStepsSignatures,  \* local Set seenStepsSignatures
    seenPurposes,         \* local Set seenPurposes
    duplicateCount,       \* local duplicateCount
    idx,                  \* position of cleaned.forEach (1-based)
    reasons,              \* per record of cleaned: the check that dropped it (its
                          \* console.warn) or "accepted"
    validatedCases,       \* what performPostGenerationValidation returned
    warnings,             \* the advisory warnings it logged
    vpc,                  \* position: "start", "scan", "done", "validated", "idle"
    \* ---- parseGeminiJSON / parseTestScenariosJSON ----
    rawText,          \* parameter text of the current call
    parsedCases,      \* what parseGeminiJSON(text) did
    parsedScenarios,  \* what parseTestScenariosJSON(text) did
    prevText,         \* the text of the call before
    prevCases,        \* what parseGeminiJSON did in the call before
    prevScenarios,    \* what parseTestScenariosJSON did in the call before
    callNo,           \* number of the current call
    ppc,              \* position: "start", "cases", "done", "idle"
    \* ---- two filter runs against one run over the concatenation ----
    xs,      \* the records X
    ys,      \* the records Y
    outX,    \* validateAndCleanTestCasesEnhanced(X, [])
    outY,    \* validateAndCleanTestCasesEnhanced(Y, outX)
    outXY,   \* the records of Y in validateAndCleanTestCasesEnhanced(X ++ Y, [])
    hpc,     \* position: "start", "first", "second", "concat", "idle"
    \* ---- a second invocation of parseGeminiJSONEnhanced (another request) ----
    testCases2,            \* its parsed records
    existingTestCases2,    \* its parameter existingTestCases
    cleaned2,              \* its local cleaned
    uniqueCases2,          \* its local uniqueCases
    seenSummaries2,        \* its local Set seenSummaries
    seenStepsSignatures2,  \* its local Set seenStepsSignatures
    seenPurposes2,         \* its local Set seenPurposes
    idx2,                  \* its position of cleaned.forEach
    validatedCases2,       \* what its performPostGenerationValidation returned
    vpc2,                  \* its position: "start", "scan", "done", "validated", "idle"
    \* ---- generateTestCasesWithOptions ----
    generating,  \* the generation whose AI call is running: "testCases",
                 \* "testScenarios" or "none"
    completed,   \* the generations of this request whose AI call has returned
    response,    \* the response sent by res.status(...).json(...)
    \* ---- the OAuth handlers and the shared oauth2Client ----
    userTokens,   \* the UserToken collection: per user the stored record
    credentials,  \* oauth2Client.credentials of the module-level client
    reqs,         \* per request: handler, userId, position, what findOne
                  \* returned, the revocation outcome, the answer
    apiCalls,     \* the Sheets API calls made through a returned client,
                  \* each with the credentials it was sent with
    \* ---- ProtectRoute ----
    cookie,      \* req.cookies.jwt
    users,       \* the ids of the User collection
    decoded,     \* local decoded
    reqUser,     \* req.user
    statusSent,  \* the status of the response sent, 0 if none
    nextCalled,  \* next() was called
    mpc,         \* position: "start", "lookup", "done", "idle"
    \* ---- the sheet writers ----
    sheet,        \* columns A:J of the sheet: its rows, top to bottom
    appends,      \* per call of appendTestCasesToExistingSheet: position,
                  \* its rows, its local nextRow
    arrangement   \* processCustomPrompt: position, rows, testCases,
                  \* arrangedTestCases, the answer

rvars == <<maxRetries, baseDelay, attempt, lastError, pc, calls, errors, delays,
           successAt, returned, thrown>>

nvars == <<testCases, existingTestCases, cleaned, uniqueCases, seenSummaries,
           seenStepsSignatures, seenPurposes, duplicateCount, idx, reasons,
           validatedCases, warnings, vpc>>

pvars == <<rawText, parsedCases, parsedScenarios, prevText, prevCases, prevScenarios,
           callNo, ppc>>

hvars == <<xs, ys, outX, outY, outXY, hpc>>

ivars == <<testCases2, existingTestCases2, cleaned2, uniqueCases2, seenSummaries2,
           seenStepsSignatures2, seenPurposes2, idx2, validatedCases2, vpc2>>

evars == <<generating, completed, response>>

avars == <<userTokens, credentials, reqs, apiCalls>>

mvars == <<cookie, users, decoded, reqUser, statusSent, nextCalled, mpc>>

svars == <<sheet, appends, arrangement>>

vars == <<rvars, nvars, pvars, hvars, ivars, evars, avars, mvars, svars>>

\* No call of a parser has been made.
NoResult == [strategy |-> "none", val |-> <<>>]

\* No response has been sent.
NoResponse == [status |-> 0, errorType |-> "", hasRetryAfter |-> FALSE, retryAfter |-> 0]

(***************************************************************************)
(*                         callGeminiWithRetry                             *)
(***************************************************************************)

\* Largest maxRetries explored.
MaxRetriesBound == 3

\* Width of the random jitter: Math.random() * 1000.
JitterRange == 1000

\* Samples of the jitter value, 0 <= jitter < JitterRange.
Jitters == {0, 500, JitterRange - 1}

\* baseDelay values: the default and the one the controllers pass.
BaseDelays == {1000, 2000}

\* The markers callGeminiWithRetry looks for in error.message; the messages
\* below also hold the markers generateTestCasesWithOptions looks for.
Markers == {"503", "overloaded", "rate limit", "429"}

\* An error message is modelled by the set of markers it contains
\* (String.prototype.includes is all the code asks of it).
Messages ==
    {{}, {"503"}, {"overloaded"}, {"rate limit"}, {"429"}, {"503", "overloaded"},
     {"429", "503"}, {"Authentication"}, {"Permission"}, {"not found"}}

\* The value `undefined` (lastError before any failure).
Undefined == [type |-> "undefined", att |-> 0, hasMessage |-> FALSE, msg |-> {}]

\* The error raised by attempt a; hasMessage = FALSE is a thrown value
\* without a message property.
ErrorOf(a, hasMessage, msg) ==
    [type |-> "Error", att |-> a, hasMessage |-> hasMessage, msg |-> msg]

\* The TypeError raised by error.message.includes(...) on a value without message.
TypeErrorAt(a) == [type |-> "TypeError", att |-> a, hasMessage |-> TRUE, msg |-> {}]

Includes(msg, marker) == marker \in msg

\* for (...; attempt <= maxRetries; ...)
LoopCondOffByOne(a, m) == a < m
LoopCond(a, m) == a <= m

\* The first test on the message: rate limit or overload error.
IsOverloadOrRateLimit(msg) ==
    \/ Includes(msg, "503")
    \/ Includes(msg, "overloaded")
    \/ Includes(msg, "rate limit")
    \/ Includes(msg, "429")

\* The second test on the message: "for other errors, don't retry".
IsOtherErrorNever(msg) == FALSE
IsOtherError(msg) ==
    /\ ~Includes(msg, "503")
    /\ ~Includes(msg, "overloaded")
    /\ ~Includes(msg, "rate limit")
    /\ ~Includes(msg, "429")

\* if (attempt < maxRetries)
HasAttemptsLeft(a, m) == a < m

\* lastError = error
CaughtErrorKeepFirst(prev, e) == IF prev = Undefined THEN e ELSE prev
CaughtError(prev, e) == e

\* baseDelay * Math.pow(2, attempt - 1) + Math.random() * 1000
BackoffDelayFromTwo(base, a, jitter) == base * 2 ^ a + jitter
BackoffDelay(base, a, jitter) == base * 2 ^ (a - 1) + jitter

RetryInit ==
    /\ maxRetries \in 0..MaxRetriesBound
    /\ baseDelay \in BaseDelays
    /\ attempt = 1
    /\ lastError = Undefined
    /\ pc = "start"
    /\ calls = 0
    /\ errors = <<>>
    /\ delays = <<>>
    /\ successAt = 0
    /\ returned = 0
    /\ thrown = Undefined
    \* validateAndCleanTestCasesEnhanced is not running
    /\ testCases = <<>>
    /\ existingTestCases = <<>>
    /\ cleaned = <<>>
    /\ uniqueCases = <<>>
    /\ seenSummaries = {}
    /\ seenStepsSignatures = {}
    /\ seenPurposes = {}
    /\ duplicateCount = 0
    /\ idx = 0
    /\ reasons = <<>>
    /\ validatedCases = <<>>
    /\ warnings = {}
    /\ vpc = "idle"
    \* the parsers are not running
    /\ rawText = <<>>
    /\ parsedCases = NoResult
    /\ parsedScenarios = NoResult
    /\ prevText = <<>>
    /\ prevCases = NoResult
    /\ prevScenarios = NoResult
    /\ callNo = 0
    /\ ppc = "idle"
    \* no other filter run, invocation or request is in progress
    /\ xs = <<>>
    /\ ys = <<>>
    /\ outX = <<>>
    /\ outY = <<>>
    /\ outXY = <<>>
    /\ hpc = "idle"
    /\ testCases2 = <<>>
    /\ existingTestCases2 = <<>>
    /\ cleaned2 = <<>>
    /\ uniqueCases2 = <<>>
    /\ seenSummaries2 = {}
    /\ seenStepsSignatures2 = {}
    /\ seenPurposes2 = {}
    /\ idx2 = 0
    /\ validatedCases2 = <<>>
    /\ vpc2 = "idle"
    /\ generating = "none"
    /\ completed = {}
    /\ response = NoResponse
    \* no OAuth handler, middleware or sheet writer is running
    /\ userTokens = <<>>
    /\ credentials = "none"
    /\ reqs = <<>>
    /\ apiCalls = {}
    /\ cookie = "none"
    /\ users = {}
    /\ decoded = "none"
    /\ reqUser = "none"
    /\ statusSent = 0
    /\ nextCalled = FALSE
    /\ mpc = "idle"
    /\ sheet = <<>>
    /\ appends = <<>>
    /\ arrangement = <<>>

\* The loop head with attempt = a: enter the body (the model call is
\* awaited) or leave the loop and throw lastError (value le).
LoopHead(a, le) ==
    IF LoopCond(a, maxRetries)
    THEN /\ attempt' = a
         /\ pc' = "call"
         /\ thrown' = thrown
    ELSE /\ attempt' = a
         /\ pc' = "threw"
         /\ thrown' = le

\* Entry of the function up to the first await.
Start ==
    /\ pc = "start"
    /\ UNCHANGED <<nvars, pvars, hvars, ivars, evars, avars, mvars, svars>>
    /\ LoopHead(1, lastError)
    /\ UNCHANGED <<maxRetries, baseDelay, lastError, calls, errors, delays,
                   successAt, returned>>

\* The awaited model call of this attempt succeeds: return text.
CallSucceedsAndContinues ==
    /\ pc = "call"
    /\ UNCHANGED <<nvars, pvars, hvars, ivars, evars, avars, mvars, svars>>
    /\ calls' = calls + 1
    /\ successAt' = IF successAt = 0 THEN calls + 1 ELSE successAt
    /\ returned' = attempt
    /\ LoopHead(attempt + 1, lastError)
    /\ UNCHANGED <<maxRetries, baseDelay, lastError, errors, delays>>
CallSucceeds ==
    /\ pc = "call"
    /\ UNCHANGED <<nvars, pvars, hvars, ivars, evars, avars, mvars, svars>>
    /\ calls' = calls + 1
    /\ successAt' = calls + 1
    /\ returned' = attempt
    /\ pc' = "returned"
    /\ UNCHANGED <<maxRetries, baseDelay, attempt, lastError, errors, delays, thrown>>

\* The awaited model call of this attempt fails with error e: the catch block.
Catch(e, jitter) ==
    /\ calls' = calls + 1
    /\ errors' = Append(errors, e)
    /\ lastError' = CaughtError(lastError, e)
    /\ IF ~e.hasMessage
       THEN \* error.message.includes throws inside the catch block
            /\ pc' = "threw"
            /\ thrown' = TypeErrorAt(attempt)
            /\ UNCHANGED <<attempt, delays>>
       ELSE IF IsOverloadOrRateLimit(e.msg) /\ HasAttemptsLeft(attempt, maxRetries)
       THEN /\ delays' = Append(delays, BackoffDelay(baseDelay, attempt, jitter))
            /\ pc' = "wait"
            /\ UNCHANGED <<attempt, thrown>>
       ELSE IF IsOtherError(e.msg)
       THEN /\ pc' = "threw"
            /\ thrown' = e
            /\ UNCHANGED <<attempt, delays>>
       ELSE /\ LoopHead(attempt + 1, CaughtError(lastError, e))
            /\ UNCHANGED delays
    /\ UNCHANGED <<maxRetries, baseDelay, successAt, returned>>

CallFails ==
    /\ pc = "call"
    /\ UNCHANGED <<nvars, pvars, hvars, ivars, evars, avars, mvars, svars>>
    /\ \E msg \in Messages, jitter \in Jitters :
          Catch(ErrorOf(attempt, TRUE, msg), jitter)

\* The call rejects with a value that has no message property.
CallFailsWithoutMessage ==
    /\ pc = "call"
    /\ UNCHANGED <<nvars, pvars, hvars, ivars, evars, avars, mvars, svars>>
    /\ Catch(ErrorOf(attempt, FALSE, {}), 0)

\* The timer of the backoff wait fires: continue with the next attempt.
WaitDone ==
    /\ pc = "wait"
    /\ UNCHANGED <<nvars, pvars, hvars, ivars, evars, avars, mvars, svars>>
    /\ LoopHead(attempt + 1, lastError)
    /\ UNCHANGED <<maxRetries, baseDelay, lastError, calls, errors, delays,
                   successAt, returned>>

RetryNext ==
    \/ Start
    \/ CallSucceeds
    \/ CallFails
    \/ CallFailsWithoutMessage
    \/ WaitDone

RetrySpec == RetryInit /\ [][RetryNext]_vars

(***************************************************************************)
(*      generateTestCasesWithOptions: the AI calls and their failures      *)
(***************************************************************************)

\* callGeminiWithRetry(model, prompt, 3, 2000)
ControllerMaxRetries == 3
ControllerBaseDelay == 2000

Response(status, errorType) ==
    [status |-> status, errorType |-> errorType, hasRetryAfter |-> FALSE,
     retryAfter |-> 0]

RetryResponse(status, errorType, retryAfter) ==
    [status |-> status, errorType |-> errorType, hasRetryAfter |-> TRUE,
     retryAfter |-> retryAfter]

\* res.json({success: true, ...})
SuccessResponse == Response(200, "")

\* The catch block of the whole handler; msg is the message of the error.
OuterCatchResponse(msg) ==
    IF Includes(msg, "Authentication") THEN Response(401, "AUTH_ERROR")
    ELSE IF Includes(msg, "Permission") THEN Response(403, "PERMISSION_ERROR")
    ELSE IF Includes(msg, "not found") THEN Response(404, "NOT_FOUND")
    ELSE Response(500, "INTERNAL_ERROR")

\* The catch block around the generation of the test cases, for the caught
\* value e.  A value without a message makes error.message.includes throw a
\* TypeError, whose message holds none of the markers; throw error hands the
\* error to the catch block of the handler.
CasesErrorResponse(e) ==
    IF ~e.hasMessage THEN OuterCatchResponse({})
    ELSE IF Includes(e.msg, "503") \/ Includes(e.msg, "overloaded")
    THEN RetryResponse(503, "SERVICE_OVERLOADED", 60000)
    ELSE IF Includes(e.msg, "429") \/ Includes(e.msg, "rate limit")
    THEN RetryResponse(429, "RATE_LIMITED", 30000)
    ELSE OuterCatchResponse(e.msg)

\* The catch block around the generation of the test scenarios.
ScenariosErrorResponseRateLimitFirst(e) ==
    IF ~e.hasMessage THEN OuterCatchResponse({})
    ELSE IF Includes(e.msg, "429") \/ Includes(e.msg, "rate limit")
    THEN RetryResponse(429, "RATE_LIMITED", 30000)
    ELSE IF Includes(e.msg, "503") \/ Includes(e.msg, "overloaded")
    THEN RetryResponse(503, "SERVICE_OVERLOADED", 60000)
    ELSE OuterCatchResponse(e.msg)
ScenariosErrorResponse(e) ==
    IF ~e.hasMessage THEN OuterCatchResponse({})
    ELSE IF Includes(e.msg, "503") \/ Includes(e.msg, "overloaded")
    THEN RetryResponse(503, "SERVICE_OVERLOADED", 60000)
    ELSE IF Includes(e.msg, "429") \/ Includes(e.msg, "rate limit")
    THEN RetryResponse(429, "RATE_LIMITED", 30000)
    ELSE OuterCatchResponse(e.msg)

GenerateInit ==
    /\ generating \in {"testCases", "testScenarios"}
    /\ completed = {}
    /\ response = NoResponse
    \* no OAuth handler, middleware or sheet writer is running
    /\ userTokens = <<>>
    /\ credentials = "none"
    /\ reqs = <<>>
    /\ apiCalls = {}
    /\ cookie = "none"
    /\ users = {}
    /\ decoded = "none"
    /\ reqUser = "none"
    /\ statusSent = 0
    /\ nextCalled = FALSE
    /\ mpc = "idle"
    /\ sheet = <<>>
    /\ appends = <<>>
    /\ arrangement = <<>>
    /\ maxRetries = ControllerMaxRetries
    /\ baseDelay = ControllerBaseDelay
    /\ attempt = 1
    /\ lastError = Undefined
    /\ pc = "start"
    /\ calls = 0
    /\ errors = <<>>
    /\ delays = <<>>
    /\ successAt = 0
    /\ returned = 0
    /\ thrown = Undefined
    \* the filter and the parsers are modelled on their own
    /\ testCases = <<>>
    /\ existingTestCases = <<>>
    /\ cleaned = <<>>
    /\ uniqueCases = <<>>
    /\ seenSummaries = {}
    /\ seenStepsSignatures = {}
    /\ seenPurposes = {}
    /\ duplicateCount = 0
    /\ idx = 0
    /\ reasons = <<>>
    /\ validatedCases = <<>>
    /\ warnings = {}
    /\ vpc = "idle"
    /\ rawText = <<>>
    /\ parsedCases = NoResult
    /\ parsedScenarios = NoResult
    /\ prevText = <<>>
    /\ prevCases = NoResult
    /\ prevScenarios = NoResult
    /\ callNo = 0
    /\ ppc = "idle"
    /\ xs = <<>>
    /\ ys = <<>>
    /\ outX = <<>>
    /\ outY = <<>>
    /\ outXY = <<>>
    /\ hpc = "idle"
    /\ testCases2 = <<>>
    /\ existingTestCases2 = <<>>
    /\ cleaned2 = <<>>
    /\ uniqueCases2 = <<>>
    /\ seenSummaries2 = {}
    /\ seenStepsSignatures2 = {}
    /\ seenPurposes2 = {}
    /\ idx2 = 0
    /\ validatedCases2 = <<>>
    /\ vpc2 = "idle"

\* The AI call for the test cases failed: the first catch block.
CasesCatch ==
    /\ pc = "threw"
    /\ generating = "testCases"
    /\ response' = CasesErrorResponse(thrown)
    /\ pc' = "responded"
    /\ UNCHANGED <<maxRetries, baseDelay, attempt, lastError, calls, errors, delays,
                   successAt, returned, thrown, generating, completed>>
    /\ UNCHANGED <<nvars, pvars, hvars, ivars, avars, mvars, svars>>

\* The AI call for the test scenarios failed: the second catch block.
ScenariosCatch ==
    /\ pc = "threw"
    /\ generating = "testScenarios"
    /\ response' = ScenariosErrorResponse(thrown)
    /\ pc' = "responded"
    /\ UNCHANGED <<maxRetries, baseDelay, attempt, lastError, calls, errors, delays,
                   successAt, returned, thrown, generating, completed>>
    /\ UNCHANGED <<nvars, pvars, hvars, ivars, avars, mvars, svars>>

\* The test cases were generated and generateTestScenarios is set: the
\* second AI call starts.
ContinueWithScenarios ==
    /\ pc = "returned"
    /\ generating = "testCases"
    /\ generating' = "testScenarios"
    /\ completed' = completed \cup {generating}
    /\ attempt' = 1
    /\ lastError' = Undefined
    /\ pc' = "start"
    /\ calls' = 0
    /\ errors' = <<>>
    /\ delays' = <<>>
    /\ successAt' = 0
    /\ returned' = 0
    /\ UNCHANGED <<maxRetries, baseDelay, thrown, response>>
    /\ UNCHANGED <<nvars, pvars, hvars, ivars, avars, mvars, svars>>

\* Every requested generation is done: res.json({success: true, ...}).
RespondSuccess ==
    /\ pc = "returned"
    /\ completed' = completed \cup {generating}
    /\ response' = SuccessResponse
    /\ pc' = "responded"
    /\ UNCHANGED <<maxRetries, baseDelay, attempt, lastError, calls, errors, delays,
                   successAt, returned, thrown, generating>>
    /\ UNCHANGED <<nvars, pvars, hvars, ivars, avars, mvars, svars>>

GenerateNext ==
    \/ RetryNext
    \/ CasesCatch
    \/ ScenariosCatch
    \/ ContinueWithScenarios
    \/ RespondSuccess

GenerateSpec == GenerateInit /\ [][GenerateNext]_vars

Retryable(e) == e.hasMessage /\ e.msg \cap Markers # {}
NonRetryable(e) == e.hasMessage /\ e.msg \cap Markers = {}
AllRetryable(es) == \A i \in 1..Len(es) : Retryable(es[i])
RetryDone == pc \in {"returned", "threw"}

\* C1: with maxRetries = N >= 1 and every call failing with a retryable error,
\* the model is invoked exactly N times and then the function throws; a first
\* call failing with a non-retryable error is the only call; with N = 1 there
\* is one attempt, no wait and no retry for any kind of failure.
C1_RetryBound ==
    /\ (RetryDone /\ maxRetries >= 1 /\ successAt = 0 /\ AllRetryable(errors))
          => (pc = "threw" /\ calls = maxRetries)
    /\ (Len(errors) >= 1 /\ NonRetryable(errors[1]))
          => (pc = "threw" /\ calls = 1 /\ delays = <<>>)
    /\ (maxRetries = 1)
          => /\ calls <= 1
             /\ delays = <<>>
             /\ pc # "wait"
             /\ (Len(errors) = 1 => pc = "threw")

C1_Witness ==
    /\ pc = "threw"
    /\ maxRetries = 3
    /\ calls = 3
    /\ AllRetryable(errors)
    /\ Len(errors) = 3

\* C2: the text of the first successful attempt is returned and no model call
\* follows it: the number of calls is the number of retryable failures before
\* the success plus one, and every wait precedes the success.
C2_NoRetryOnSuccess ==
    successAt # 0 =>
        /\ pc = "returned"
        /\ calls = successAt
        /\ returned = successAt
        /\ AllRetryable(errors)
        /\ calls = Len(errors) + 1
        /\ Len(delays) = Len(errors)

C2_Witness ==
    /\ pc = "returned"
    /\ successAt = 2
    /\ Len(errors) = 1

\* C3: a failure whose message holds none of the markers, on attempt k after
\* k-1 retryable failures, is thrown at once: the same error, no wait after
\* it, no further model call, exactly k calls.
C3_NonRetryableThrownAtOnce ==
    \A k \in 1..Len(errors) :
        NonRetryable(errors[k]) =>
            /\ pc = "threw"
            /\ thrown = errors[k]
            /\ k = Len(errors)
            /\ calls = k
            /\ Len(delays) = k - 1
            /\ errors[k].att = k

C3_Witness ==
    /\ Len(errors) = 2
    /\ Retryable(errors[1])
    /\ NonRetryable(errors[2])
    /\ pc = "threw"
    /\ maxRetries = 3

\* C4: after maxRetries consecutive retryable failures the error thrown is
\* the one raised by the last attempt: not an earlier one, not a new error,
\* not undefined.
C4_LastErrorThrown ==
    (pc = "threw" /\ maxRetries >= 1 /\ Len(errors) = maxRetries /\ AllRetryable(errors))
        => /\ thrown = errors[maxRetries]
           /\ thrown.type = "Error"
           /\ thrown.att = maxRetries

C4_Witness ==
    /\ pc = "threw"
    /\ maxRetries = 3
    /\ Len(errors) = 3
    /\ AllRetryable(errors)
    /\ errors[1].msg # errors[3].msg

(***************************************************************************)
(*                     JavaScript strings and values                       *)
(*                                                                         *)
(* A string is a sequence of tokens; a token is a run of characters of    *)
(* one class: a word (letters, digits, underscore), one whitespace        *)
(* character, or one punctuation character.  Adjacent word tokens read as *)
(* one word ("PC_" "12" is PC_12).                                        *)
(***************************************************************************)

SP == " "
NL == "\n"
TAB == "\t"

\* Characters of JSON text and of Markdown.
QUOTE == "\""
LBRACK == "["
RBRACK == "]"
LBRACE == "{"
RBRACE == "}"
COMMA == ","
COLON == ":"
\* The two characters backslash n, backslash t (an escape in JSON text).
BSN == "\\n"
BST == "\\t"
\* Three backticks, the Markdown code fence (one token).
FENCE == "<fence>"

\* \s
IsSpace(tok) == tok \in {SP, NL, TAB}

\* Largest number that occurs in an identifier or a template string.
MaxNumber == 99

\* \d+ : a run of digits
DigitRuns == {ToString(n) : n \in 0..MaxNumber}
IsDigits(tok) == tok \in DigitRuns

\* [^\w\s]
Punctuation ==
    {".", COMMA, COLON, "-", "!", "?", "(", ")", "/", QUOTE, LBRACK, RBRACK, LBRACE,
     RBRACE, FENCE}
IsPunct(tok) == tok \in Punctuation

\* The tokens of the model by length in characters (String.prototype.length).
LenTable ==
    << {SP, NL, TAB} \cup (Punctuation \ {FENCE}) \cup {ToString(n) : n \in 0..9},
       {ToString(n) : n \in 10..99} \cup {"to", "of", "in", "is", "id", "I", BSN, BST},
       {ToString(n) : n \in 100..MaxNumber} \cup {FENCE, "PC_", "TS_", "for", "the", "and", "End", "end", "Not", "not"},
       {"Step", "step", "Test", "test", "Case", "case", "Open", "open", "page",
        "with", "that", "Sure", "json", "Save", "save", "File", "file", "Help", "help", "Edit", "edit"},
       {"Login", "login", "Check", "check", "Click", "click", "Enter", "enter",
        "valid", "Valid", "email", "Email", "using", "Using", "Title", "title",
        "Empty", "empty", "steps"},
       {"Verify", "verify", "Upload", "upload", "action", "result", "Module",
        "module", "Submit", "submit", "Forgot", "Change", "fields", "Result",
        "cannot", "Tested", "tested", "Delete", "delete", "Create", "create", "Update", "update"},
       {"Perform", "perform", "Summary", "summary", "outcome", "Default",
        "Invalid", "invalid", "Attempt", "attempt", "request", "correct"},
       {"Validate", "validate", "Expected", "expected", "password", "Password",
        "Scenario", "scenario", "Language", "language", "workflow", "Negative",
        "Positive", "positive", "negative"},
       {"Submodule", "submodule", "Condition", "condition", "testSteps", "teststeps"},
       {},
       {"Credentials", "credentials", "Description", "description"},
       {},
       {"functionality"} >>

Vocabulary == UNION {LenTable[n] : n \in 1..Len(LenTable)}

TokLen(tok) == CHOOSE n \in 1..Len(LenTable) : tok \in LenTable[n]

\* String.prototype.toLowerCase, token by token.
UpperLower ==
    {<<"Step", "step">>, <<"Test", "test">>, <<"Case", "case">>, <<"Open", "open">>,
     <<"Save", "save">>, <<"File", "file">>, <<"Help", "help">>, <<"Edit", "edit">>,
     <<"Login", "login">>, <<"Check", "check">>, <<"Click", "click">>,
     <<"Enter", "enter">>, <<"Valid", "valid">>, <<"Email", "email">>,
     <<"Using", "using">>, <<"Title", "title">>, <<"Empty", "empty">>,
     <<"Verify", "verify">>, <<"Upload", "upload">>, <<"Module", "module">>,
     <<"Submit", "submit">>, <<"Forgot", "forgot">>, <<"Change", "change">>,
     <<"Result", "result">>, <<"Delete", "delete">>, <<"Create", "create">>,
     <<"Update", "update">>, <<"Perform", "perform">>, <<"Summary", "summary">>,
     <<"Default", "default">>, <<"Invalid", "invalid">>, <<"Attempt", "attempt">>,
     <<"Validate", "validate">>, <<"Expected", "expected">>,
     <<"Password", "password">>, <<"Scenario", "scenario">>,
     <<"Language", "language">>, <<"Negative", "negative">>,
     <<"Positive", "positive">>, <<"Submodule", "submodule">>,
     <<"Condition", "condition">>, <<"Not", "not">>, <<"Tested", "tested">>,
     <<"Credentials", "credentials">>, <<"Description", "description">>,
     <<"End", "end">>, <<"PC_", "pc_">>, <<"TS_", "ts_">>,
     <<"testSteps", "teststeps">>, <<"expectedResults", "expectedresults">>,
     <<"testCaseType", "testcasetype">>}

LowerTok(tok) ==
    IF \E p \in UpperLower : p[1] = tok
    THEN (CHOOSE p \in UpperLower : p[1] = tok)[2]
    ELSE tok

ToLowerCase(s) == [i \in 1..Len(s) |-> LowerTok(s[i])]

\* String.prototype.trim
RECURSIVE TrimStart(_)
TrimStart(s) ==
    IF s # <<>> /\ IsSpace(Head(s)) THEN TrimStart(Tail(s)) ELSE s

RECURSIVE TrimEnd(_)
TrimEnd(s) ==
    IF s # <<>> /\ IsSpace(s[Len(s)]) THEN TrimEnd(SubSeq(s, 1, Len(s) - 1)) ELSE s

Trim(s) == TrimEnd(TrimStart(s))

\* replace(/\s+/g, ' ')
RECURSIVE CollapseSpaces(_)
CollapseSpaces(s) ==
    IF s = <<>> THEN <<>>
    ELSE IF IsSpace(Head(s))
         THEN <<SP>> \o CollapseSpaces(TrimStart(s))
         ELSE <<Head(s)>> \o CollapseSpaces(Tail(s))

\* Concatenation of the strings of a sequence with sep between them
\* (Array.prototype.join).
RECURSIVE Join(_, _)
Join(strs, sep) ==
    IF strs = <<>> THEN <<>>
    ELSE IF Len(strs) = 1 THEN strs[1]
    ELSE strs[1] \o sep \o Join(Tail(strs), sep)

\* split(' '): the pieces between single spaces (pieces may be empty).
RECURSIVE SplitOnSpace(_, _)
SplitOnSpace(s, cur) ==
    IF s = <<>> THEN <<cur>>
    ELSE IF Head(s) = SP THEN <<cur>> \o SplitOnSpace(Tail(s), <<>>)
    ELSE SplitOnSpace(Tail(s), Append(cur, Head(s)))

SplitSpace(s) == SplitOnSpace(s, <<>>)

\* split(/\s+/): the pieces between runs of whitespace.
RECURSIVE SplitRuns(_, _)
SplitRuns(s, cur) ==
    IF s = <<>> THEN <<cur>>
    ELSE IF IsSpace(Head(s)) THEN <<cur>> \o SplitRuns(TrimStart(s), <<>>)
    ELSE SplitRuns(Tail(s), Append(cur, Head(s)))

SplitWhitespace(s) == SplitRuns(s, <<>>)

\* word.length
RECURSIVE StrLen(_)
StrLen(s) == IF s = <<>> THEN 0 ELSE TokLen(Head(s)) + StrLen(Tail(s))

Range(f) == {f[i] : i \in DOMAIN f}

\* JavaScript values: t is the type, s the string (or the digits of a
\* number), a the elements of an array as Array.prototype.join reads them.
JsUndefined == [t |-> "undefined", s |-> <<>>, a |-> <<>>]
JsNull == [t |-> "null", s |-> <<>>, a |-> <<>>]
JsString(s) == [t |-> "string", s |-> s, a |-> <<>>]
JsNumber(n) == [t |-> "number", s |-> <<ToString(n)>>, a |-> <<>>]
JsArray(a) == [t |-> "array", s |-> <<>>, a |-> a]
JsBoolean(s) == [t |-> "boolean", s |-> s, a |-> <<>>]
\* An object as the value of a field: the program never looks inside.
JsObject == [t |-> "object", s |-> <<>>, a |-> <<>>]

EmptyString == JsString(<<>>)

\* ToBoolean
Truthy(v) ==
    CASE v.t = "string" -> v.s # <<>>
      [] v.t = "number" -> v.s # <<"0">>
      [] v.t = "boolean" -> v.s = <<"true">>
      [] v.t \in {"array", "object"} -> TRUE
      [] OTHER -> FALSE

\* a || b
OrElse(a, b) == IF Truthy(a) THEN a ELSE b

IsString(v) == v.t = "string"

(***************************************************************************)
(*                 Signatures and similarity measures                      *)
(***************************************************************************)

\* A similarity value num/den; den = 0 is NaN (0/0); ulp = 1 says that the
\* double the code computes lies just above num/den.
Fraction(num, den, ulp) == [num |-> num, den |-> den, ulp |-> ulp]
Zero == Fraction(0, 1, 0)

\* value > pct/100 on doubles (false for NaN)
GreaterThan(f, pct) ==
    /\ f.den # 0
    /\ \/ f.num * 100 > pct * f.den
       \/ (f.num * 100 = pct * f.den /\ f.ulp > 0)

\* replace(/step \d+\./g, '')
RECURSIVE RemoveStepNumbers(_)
RemoveStepNumbers(s) ==
    IF s = <<>> THEN <<>>
    ELSE IF /\ Len(s) >= 4
            /\ s[1] = "step" /\ s[2] = SP /\ IsDigits(s[3]) /\ s[4] = "."
         THEN RemoveStepNumbers(SubSeq(s, 5, Len(s)))
         ELSE <<Head(s)>> \o RemoveStepNumbers(Tail(s))

\* replace(/\d+\./g, '')
RECURSIVE RemoveListNumbers(_)
RemoveListNumbers(s) ==
    IF s = <<>> THEN <<>>
    ELSE IF Len(s) >= 2 /\ IsDigits(s[1]) /\ s[2] = "."
         THEN RemoveListNumbers(SubSeq(s, 3, Len(s)))
         ELSE <<Head(s)>> \o RemoveListNumbers(Tail(s))

\* replace(/[^\w\s]/g, ' ')
BlankPunctuation(s) == [i \in 1..Len(s) |-> IF IsPunct(s[i]) THEN SP ELSE s[i]]

createStepsSignature(testSteps) ==
    Trim(CollapseSpaces(BlankPunctuation(RemoveListNumbers(RemoveStepNumbers(
        ToLowerCase(testSteps))))))

purposeKeywords ==
    {"verify", "validate", "test", "check", "ensure", "confirm",
     "login", "create", "update", "delete", "search", "upload",
     "download", "submit", "cancel", "save", "edit", "view"}

\* Number of words of a purpose signature: purposeWords.slice(0, 5)
PurposeWords == 5

\* word.length > 4
PurposeMinLength == 4

IsPurposeWord(word) ==
    \/ (Len(word) = 1 /\ word[1] \in purposeKeywords)
    \/ StrLen(word) > PurposeMinLength

extractTestPurpose(summary) ==
    LET words == SplitWhitespace(ToLowerCase(summary))
        purposeWordsAll == SelectSeq(words, IsPurposeWord)
        n == IF Len(purposeWordsAll) < PurposeWords
             THEN Len(purposeWordsAll) ELSE PurposeWords
    IN Join([i \in 1..n |-> purposeWordsAll[i]], <<SP>>)

\* word.length > 3
SignificantLength == 3

IsSignificant(word) == StrLen(word) > SignificantLength

SignificantWords(str) == Range(SelectSeq(SplitSpace(str), IsSignificant))

actionWords == {"login", "create", "update", "delete", "verify", "validate"}

\* str.includes(action): no token of the vocabulary holds an action word as
\* a proper part, so the action word occurs iff it is one of the tokens.
StrIncludes(str, word) == \E i \in 1..Len(str) : str[i] = word

\* 0.1 added once per shared action word; three additions give
\* 0.30000000000000004, which makes 2/5 + 0.3 exceed 0.7 on doubles.
RoundingExcess(i, u, k) == IF k = 3 /\ 5 * i = 2 * u THEN 1 ELSE 0

calculateAdvancedSimilarity(str1, str2) ==
    LET set1 == SignificantWords(str1)
        set2 == SignificantWords(str2)
        i == Cardinality(set1 \cap set2)
        u == Cardinality(set1 \cup set2)
        k == Cardinality({a \in actionWords : StrIncludes(str1, a) /\ StrIncludes(str2, a)})
        sum == 10 * i + k * u
    IN IF set1 = {} \/ set2 = {} THEN Zero
       ELSE IF sum >= 10 * u THEN Fraction(1, 1, 0)
       ELSE Fraction(sum, 10 * u, RoundingExcess(i, u, k))

calculatePurposeSimilarity(purpose1, purpose2) ==
    LET words1 == SplitSpace(purpose1)
        words2 == SplitSpace(purpose2)
        commonWords == Cardinality({j \in 1..Len(words1) : words1[j] \in Range(words2)})
        totalWords == Cardinality(Range(words1) \cup Range(words2))
    IN IF purpose1 = <<>> \/ purpose2 = <<>> THEN Zero
       ELSE Fraction(commonWords, totalWords, 0)

calculateSimpleSimilarity(str1, str2) ==
    LET set1 == SignificantWords(str1)
        set2 == SignificantWords(str2)
    IN Fraction(Cardinality(set1 \cap set2), Cardinality(set1 \cup set2), 0)

(***************************************************************************)
(*                       Record normalisation                              *)
(***************************************************************************)

\* The fields the normaliser reads from a candidate record.
CandFields ==
    {"id", "module", "submodule", "summary", "title", "testSteps", "steps",
     "expectedResults", "expectedResult", "testCaseType", "environment", "status"}

NoFields == [f \in CandFields |-> JsUndefined]

\* `PC_${index + 1}`
SynthesizedId(index) == JsString(<<"PC_", ToString(index + 1)>>)

\* `Test Case ${index + 1}`
SynthesizedSummary(index) ==
    JsString(<<"Test", SP, "Case", SP, ToString(index + 1)>>)

\* tc.testSteps || tc.steps, an array joined with '\n'
StepsKeepArray(tc) == OrElse(tc.testSteps, tc.steps)
StepsOf(tc) ==
    LET steps == OrElse(tc.testSteps, tc.steps)
    IN IF steps.t = "array" THEN JsString(Join(steps.a, <<NL>>)) ELSE steps

\* The object built for candidate tc at (0-based) position index.
NormalizeTestCase(tc, index) ==
    [id |-> OrElse(tc.id, SynthesizedId(index)),
     module |-> OrElse(tc.module, EmptyString),
     submodule |-> OrElse(tc.submodule, EmptyString),
     summary |-> OrElse(tc.summary, OrElse(tc.title, SynthesizedSummary(index))),
     testSteps |-> OrElse(StepsOf(tc), EmptyString),
     expectedResults |-> OrElse(tc.expectedResults, OrElse(tc.expectedResult, EmptyString)),
     testCaseType |-> OrElse(tc.testCaseType, JsString(<<"Positive">>)),
     environment |-> OrElse(tc.environment, JsString(<<"Test">>)),
     status |-> OrElse(tc.status, JsString(<<"Not", SP, "Tested">>))]

HasSummary(tc) == Truthy(tc.summary)

\* testCases.map(...).filter(tc => tc.summary)
CleanedOf(tcs) ==
    SelectSeq([i \in 1..Len(tcs) |-> NormalizeTestCase(tcs[i], i - 1)], HasSummary)

(***************************************************************************)
(*                 validateAndCleanTestCasesEnhanced                       *)
(***************************************************************************)

\* calculateAdvancedSimilarity(...) > 0.75 against the seen step signatures
StepsThreshold == 75
\* calculatePurposeSimilarity(...) > 0.70 against the seen purposes
PurposeThreshold == 70
\* > 0.70 against the records accepted from the same batch
BatchThreshold == 70

summaryKeyOf(tc) == Trim(ToLowerCase(tc.summary.s))
stepsSignatureOf(tc) == createStepsSignature(tc.testSteps.s)
testPurposeOf(tc) == extractTestPurpose(tc.summary.s)

\* Check 1: exact summary duplicate
IsDuplicateSummaryUntrimmed(tc, summaries) == ToLowerCase(tc.summary.s) \in summaries
IsDuplicateSummary(tc, summaries) == summaryKeyOf(tc) \in summaries

\* Check 2: similar test steps
HasSimilarSteps(tc, signatures) ==
    \E existingSteps \in signatures :
        GreaterThan(calculateAdvancedSimilarity(stepsSignatureOf(tc), existingSteps),
                    StepsThreshold)

\* Check 3: similar test purpose
HasSimilarPurpose(tc, purposes) ==
    \E existingPurpose \in purposes :
        GreaterThan(calculatePurposeSimilarity(testPurposeOf(tc), existingPurpose),
                    PurposeThreshold)

\* Check 4: uniqueness within the new batch
IsDuplicateInBatch(tc, unique) ==
    \E j \in 1..Len(unique) :
        \/ GreaterThan(calculateAdvancedSimilarity(stepsSignatureOf(tc),
                                                   stepsSignatureOf(unique[j])),
                       BatchThreshold)
        \/ GreaterThan(calculatePurposeSimilarity(testPurposeOf(tc),
                                                  testPurposeOf(unique[j])),
                       BatchThreshold)

\* The check whose console.warn reports a dropped record: the first of the
\* four that holds.
RejectedBy(tc, summaries, signatures, purposes) ==
    IF IsDuplicateSummary(tc, summaries) THEN "summary"
    ELSE IF HasSimilarSteps(tc, signatures) THEN "steps"
    ELSE IF HasSimilarPurpose(tc, purposes) THEN "purpose"
    ELSE "batch"

IsRejected(tc, summaries, signatures, purposes, unique) ==
    \/ IsDuplicateSummary(tc, summaries)
    \/ HasSimilarSteps(tc, signatures)
    \/ HasSimilarPurpose(tc, purposes)
    \/ IsDuplicateInBatch(tc, unique)

\* Largest number of candidate records in a batch.
MaxBatch == 2

SumA == <<"Verify", SP, "login">>
SumB == <<"Check", SP, "upload">>
TitleA == <<"Upload", SP, "title">>
StepA == <<"Open", SP, "page">>
StepB == <<"Click", SP, "submit">>
StepC == <<"Enter", SP, "password">>

Candidate(id, summary, title, testSteps, steps) ==
    [NoFields EXCEPT !["id"] = id, !["summary"] = summary, !["title"] = title,
                     !["testSteps"] = testSteps, !["steps"] = steps]

\* Candidates that differ in id and summary.
IdCandidates ==
    {Candidate(id, JsString(sm), JsUndefined, JsUndefined, JsUndefined) :
        id \in {JsUndefined, EmptyString, JsString(<<"PC_", "2">>)},
        sm \in {SumA, SumB}}

\* Candidates that differ in summary and title.
SummaryCandidates ==
    {Candidate(JsUndefined, sm, ti, JsUndefined, JsString(StepC)) :
        sm \in {JsUndefined, EmptyString},
        ti \in {EmptyString, JsString(TitleA)}}

\* Candidates that differ in the two spellings of the steps field.
StepsCandidates ==
    {Candidate(JsUndefined, JsString(SumA), JsUndefined, ts, st) :
        ts \in {JsUndefined, EmptyString, JsString(StepA), JsArray(<<StepA, StepB>>)},
        st \in {JsUndefined, JsString(StepC), JsArray(<<StepC>>)}}
    \cup {Candidate(JsUndefined, JsString(SumA), JsUndefined, JsArray(<<>>), JsString(StepC))}

\* Candidates with the remaining fields present.
FullCandidate ==
    [id |-> JsString(<<"PC_", "3">>), module |-> JsString(<<"Login">>),
     submodule |-> JsString(<<"Password">>), summary |-> JsString(SumB),
     title |-> JsString(TitleA), testSteps |-> JsString(StepB),
     steps |-> JsString(StepC), expectedResults |-> EmptyString,
     expectedResult |-> JsString(<<"Expected", SP, "result">>),
     testCaseType |-> JsString(<<"Negative">>), environment |-> JsUndefined,
     status |-> JsUndefined]

Candidates == IdCandidates \cup SummaryCandidates \cup StepsCandidates \cup {FullCandidate}

Batches == UNION {[1..n -> Candidates] : n \in 0..MaxBatch}

\* A record already in the sheet.
ExistingRecord ==
    NormalizeTestCase(Candidate(JsString(<<"PC_", "9">>), JsString(<<"Save", SP, "file">>),
                                JsUndefined, JsString(<<"Edit", SP, "file">>),
                                JsUndefined), 0)

ExistingChoices == {<<>>, <<ExistingRecord>>}

\* Records written to exercise the similarity checks: summaries and steps
\* whose similarities fall on and around the thresholds.
LongSumA ==
    <<"Verify", SP, "login", SP, "with", SP, "valid", SP, "email", SP, "and", SP,
      "password">>
LongSumB ==
    <<"Check", SP, "login", SP, "using", SP, "correct", SP, "email", SP, "and", SP,
      "password">>
Steps3 == <<"Open", SP, "page", SP, "Click">>
Steps4 == <<"Open", SP, "page", SP, "Click", SP, "submit">>
Steps6a == <<"Open", SP, "page", SP, "Click", SP, "submit", SP, "Enter", SP, "password">>
Steps6b == <<"Open", SP, "page", SP, "Click", SP, "submit", SP, "Enter", SP, "upload">>

SimCandidate(n, summary, testSteps) ==
    Candidate(JsString(<<"PC_", ToString(n)>>), JsString(summary), JsUndefined,
              JsString(testSteps), JsUndefined)

SimCandidates ==
    <<SimCandidate(1, LongSumA, StepA),
     SimCandidate(2, LongSumB, StepB),
     SimCandidate(3, SumA, <<"Edit", SP, "file">>),
     SimCandidate(4, <<"Verify", SP, "Login", SP>>, StepA),
     SimCandidate(5, <<"Upload", SP, "title">>, Steps3),
     SimCandidate(6, SumB, Steps4),
     SimCandidate(7, <<"Delete", SP, "email">>, Steps6a),
     SimCandidate(8, <<"Create", SP, "password">>, Steps6b),
     SimCandidate(9, <<"Verify", SP, "verify", SP, "login">>, StepC),
     SimCandidate(10, <<"Open", SP, "page">>, StepB),
     SimCandidate(11, <<SP, "open", SP, "page">>, StepC)>>

\* The batches: up to MaxBatch of the records above, in the order of their
\* ids (the prompt asks for consecutively numbered records).
SimBatches ==
    LET positions == UNION {[1..n -> 1..Len(SimCandidates)] : n \in 0..MaxBatch}
        ascending == {p \in positions : \A i \in 1..(Len(p) - 1) : p[i] < p[i + 1]}
    IN {[i \in 1..Len(p) |-> SimCandidates[p[i]]] : p \in ascending}

ExistingSteps4 ==
    NormalizeTestCase(SimCandidate(20, <<"Edit", SP, "file">>, Steps4), 0)
ExistingSteps6 ==
    NormalizeTestCase(SimCandidate(21, <<"Save", SP, "file">>, Steps6a), 0)
\* The third of the candidates above, already in the sheet.
ExistingLogin ==
    NormalizeTestCase(SimCandidate(3, SumA, <<"Edit", SP, "file">>), 0)

SimExistingChoices ==
    {<<>>, <<ExistingRecord>>, <<ExistingSteps4>>, <<ExistingSteps6>>, <<ExistingLogin>>}

NormInit ==
    /\ \/ testCases \in Batches /\ existingTestCases \in ExistingChoices
       \/ testCases \in SimBatches /\ existingTestCases \in SimExistingChoices
    /\ cleaned = <<>>
    /\ uniqueCases = <<>>
    /\ seenSummaries = {}
    /\ seenStepsSignatures = {}
    /\ seenPurposes = {}
    /\ duplicateCount = 0
    /\ idx = 0
    /\ reasons = <<>>
    /\ validatedCases = <<>>
    /\ warnings = {}
    /\ vpc = "start"
    \* callGeminiWithRetry is not running
    /\ maxRetries = 0
    /\ baseDelay = 0
    /\ attempt = 0
    /\ lastError = Undefined
    /\ pc = "idle"
    /\ calls = 0
    /\ errors = <<>>
    /\ delays = <<>>
    /\ successAt = 0
    /\ returned = 0
    /\ thrown = Undefined
    \* the parsers are not running
    /\ rawText = <<>>
    /\ parsedCases = NoResult
    /\ parsedScenarios = NoResult
    /\ prevText = <<>>
    /\ prevCases = NoResult
    /\ prevScenarios = NoResult
    /\ callNo = 0
    /\ ppc = "idle"
    \* no other filter run, invocation or request is in progress
    /\ xs = <<>>
    /\ ys = <<>>
    /\ outX = <<>>
    /\ outY = <<>>
    /\ outXY = <<>>
    /\ hpc = "idle"
    /\ testCases2 = <<>>
    /\ existingTestCases2 = <<>>
    /\ cleaned2 = <<>>
    /\ uniqueCases2 = <<>>
    /\ seenSummaries2 = {}
    /\ seenStepsSignatures2 = {}
    /\ seenPurposes2 = {}
    /\ idx2 = 0
    /\ validatedCases2 = <<>>
    /\ vpc2 = "idle"
    /\ generating = "none"
    /\ completed = {}
    /\ response = NoResponse
    \* no OAuth handler, middleware or sheet writer is running
    /\ userTokens = <<>>
    /\ credentials = "none"
    /\ reqs = <<>>
    /\ apiCalls = {}
    /\ cookie = "none"
    /\ users = {}
    /\ decoded = "none"
    /\ reqUser = "none"
    /\ statusSent = 0
    /\ nextCalled = FALSE
    /\ mpc = "idle"
    /\ sheet = <<>>
    /\ appends = <<>>
    /\ arrangement = <<>>

\* Entry: the candidates are normalised, the seen sets are seeded from the
\* existing records.
ValidateStart ==
    /\ vpc = "start"
    /\ UNCHANGED <<rvars, pvars, hvars, ivars, evars, avars, mvars, svars>>
    /\ cleaned' = CleanedOf(testCases)
    /\ seenSummaries' = {summaryKeyOf(e) : e \in Range(existingTestCases)}
    /\ seenStepsSignatures' = {stepsSignatureOf(e) : e \in Range(existingTestCases)}
    /\ seenPurposes' = {testPurposeOf(e) : e \in Range(existingTestCases)}
    /\ idx' = 1
    /\ vpc' = "scan"
    /\ UNCHANGED <<testCases, existingTestCases, uniqueCases, duplicateCount, reasons,
                   validatedCases, warnings>>

\* One call of the forEach callback that ends in a return: the record is dropped.
RejectCaseRemembersSummary ==
    /\ vpc = "scan"
    /\ UNCHANGED <<rvars, pvars, hvars, ivars, evars, avars, mvars, svars>>
    /\ idx <= Len(cleaned)
    /\ IsRejected(cleaned[idx], seenSummaries, seenStepsSignatures, seenPurposes,
                  uniqueCases)
    /\ duplicateCount' = duplicateCount + 1
    /\ reasons' = Append(reasons, RejectedBy(cleaned[idx], seenSummaries,
                                             seenStepsSignatures, seenPurposes))
    /\ idx' = idx + 1
    /\ seenSummaries' = seenSummaries \cup {summaryKeyOf(cleaned[idx])}
    /\ UNCHANGED <<testCases, existingTestCases, cleaned, uniqueCases,
                   seenStepsSignatures, seenPurposes, validatedCases, warnings, vpc>>
RejectCase ==
    /\ vpc = "scan"
    /\ UNCHANGED <<rvars, pvars, hvars, ivars, evars, avars, mvars, svars>>
    /\ idx <= Len(cleaned)
    /\ IsRejected(cleaned[idx], seenSummaries, seenStepsSignatures, seenPurposes,
                  uniqueCases)
    /\ duplicateCount' = duplicateCount + 1
    /\ reasons' = Append(reasons, RejectedBy(cleaned[idx], seenSummaries,
                                             seenStepsSignatures, seenPurposes))
    /\ idx' = idx + 1
    /\ UNCHANGED <<testCases, existingTestCases, cleaned, uniqueCases, seenSummaries,
                   seenStepsSignatures, seenPurposes, validatedCases, warnings, vpc>>

\* One call of the forEach callback that passes all checks.
AcceptCaseUnshift ==
    /\ vpc = "scan"
    /\ UNCHANGED <<rvars, pvars, hvars, ivars, evars, avars, mvars, svars>>
    /\ idx <= Len(cleaned)
    /\ ~IsRejected(cleaned[idx], seenSummaries, seenStepsSignatures, seenPurposes,
                   uniqueCases)
    /\ seenSummaries' = seenSummaries \cup {summaryKeyOf(cleaned[idx])}
    /\ seenStepsSignatures' = seenStepsSignatures \cup {stepsSignatureOf(cleaned[idx])}
    /\ seenPurposes' = seenPurposes \cup {testPurposeOf(cleaned[idx])}
    /\ uniqueCases' = <<cleaned[idx]>> \o uniqueCases
    /\ reasons' = Append(reasons, "accepted")
    /\ idx' = idx + 1
    /\ UNCHANGED <<testCases, existingTestCases, cleaned, duplicateCount, validatedCases,
                   warnings, vpc>>
AcceptCase ==
    /\ vpc = "scan"
    /\ UNCHANGED <<rvars, pvars, hvars, ivars, evars, avars, mvars, svars>>
    /\ idx <= Len(cleaned)
    /\ ~IsRejected(cleaned[idx], seenSummaries, seenStepsSignatures, seenPurposes,
                   uniqueCases)
    /\ seenSummaries' = seenSummaries \cup {summaryKeyOf(cleaned[idx])}
    /\ seenStepsSignatures' = seenStepsSignatures \cup {stepsSignatureOf(cleaned[idx])}
    /\ seenPurposes' = seenPurposes \cup {testPurposeOf(cleaned[idx])}
    /\ uniqueCases' = Append(uniqueCases, cleaned[idx])
    /\ reasons' = Append(reasons, "accepted")
    /\ idx' = idx + 1
    /\ UNCHANGED <<testCases, existingTestCases, cleaned, duplicateCount, validatedCases,
                   warnings, vpc>>

\* return uniqueCases
ValidateReturn ==
    /\ vpc = "scan"
    /\ UNCHANGED <<rvars, pvars, hvars, ivars, evars, avars, mvars, svars>>
    /\ idx > Len(cleaned)
    /\ vpc' = "done"
    /\ UNCHANGED <<testCases, existingTestCases, cleaned, uniqueCases, seenSummaries,
                   seenStepsSignatures, seenPurposes, duplicateCount, idx, reasons,
                   validatedCases, warnings>>

\* validatedCases.length < generatedTestCases.length * 0.7
SurvivalPercent == 70
\* submodules.length < 3
MinSubmodules == 3

\* The console.warn calls of performPostGenerationValidation for the
\* validated records of a batch of generated records.
WarningsOf(validated, generated) ==
    LET submodules == {validated[i].submodule : i \in 1..Len(validated)}
        CountOf(type) ==
            Cardinality({i \in 1..Len(validated) :
                            validated[i].testCaseType = JsString(<<type>>)})
    IN (IF 100 * Len(validated) < SurvivalPercent * Len(generated)
        THEN {"duplicates"} ELSE {})
       \cup (IF Cardinality(submodules) < MinSubmodules THEN {"variety"} ELSE {})
       \cup (IF CountOf("Positive") = 0 \/ CountOf("Negative") = 0
             THEN {"balance"} ELSE {})

\* performPostGenerationValidation after its call of
\* validateAndCleanTestCasesEnhanced has returned: the additional checks and
\* return validatedCases.
PostValidationDropsOnWarning ==
    /\ vpc = "done"
    /\ UNCHANGED <<rvars, pvars, hvars, ivars, evars, avars, mvars, svars>>
    /\ warnings' = WarningsOf(uniqueCases, testCases)
    /\ validatedCases' = IF "duplicates" \in warnings' THEN <<>> ELSE uniqueCases
    /\ vpc' = "validated"
    /\ UNCHANGED <<testCases, existingTestCases, cleaned, uniqueCases, seenSummaries,
                   seenStepsSignatures, seenPurposes, duplicateCount, idx, reasons>>
PostValidation ==
    /\ vpc = "done"
    /\ UNCHANGED <<rvars, pvars, hvars, ivars, evars, avars, mvars, svars>>
    /\ warnings' = WarningsOf(uniqueCases, testCases)
    /\ validatedCases' = uniqueCases
    /\ vpc' = "validated"
    /\ UNCHANGED <<testCases, existingTestCases, cleaned, uniqueCases, seenSummaries,
                   seenStepsSignatures, seenPurposes, duplicateCount, idx, reasons>>

NormNext ==
    \/ ValidateStart
    \/ RejectCase
    \/ AcceptCase
    \/ ValidateReturn
    \/ PostValidation

NormSpec == NormInit /\ [][NormNext]_vars

\* cleaned.forEach(...) from record k on, as one value: the positions of
\* cleaned whose records are pushed to uniqueCases, in order.  acc holds the
\* positions accepted so far, the three sets are the seen sets.
RECURSIVE ScanFrom(_, _, _, _, _, _)
ScanFrom(cl, k, acc, summaries, signatures, purposes) ==
    IF k > Len(cl) THEN acc
    ELSE IF IsRejected(cl[k], summaries, signatures, purposes,
                       [i \in 1..Len(acc) |-> cl[acc[i]]])
    THEN ScanFrom(cl, k + 1, acc, summaries, signatures, purposes)
    ELSE ScanFrom(cl, k + 1, Append(acc, k),
                  summaries \cup {summaryKeyOf(cl[k])},
                  signatures \cup {stepsSignatureOf(cl[k])},
                  purposes \cup {testPurposeOf(cl[k])})

\* The positions of the candidates tcs that one call with the existing
\* records keeps.
AcceptedPositions(tcs, existing) ==
    ScanFrom(CleanedOf(tcs), 1, <<>>,
             {summaryKeyOf(e) : e \in Range(existing)},
             {stepsSignatureOf(e) : e \in Range(existing)},
             {testPurposeOf(e) : e \in Range(existing)})

\* One whole call: the value it returns.
validateAndCleanTestCasesEnhanced(tcs, existing) ==
    LET cl == CleanedOf(tcs)
        acc == AcceptedPositions(tcs, existing)
    IN [i \in 1..Len(acc) |-> cl[acc[i]]]

(***************************************************************************)
(*      Two runs of the filter against one run over the concatenation      *)
(***************************************************************************)

\* Largest number of records in X and in Y.
MaxChain == 2

\* Records whose step signatures are 3/4 and 5/7 similar, with unrelated
\* summaries.
ChainCandidates ==
    {SimCandidate(5, <<"Upload", SP, "title">>, Steps3),
     SimCandidate(6, SumB, Steps4),
     SimCandidate(7, <<"Delete", SP, "email">>, Steps6a),
     SimCandidate(8, <<"Create", SP, "password">>, Steps6b)}

ChainBatches == UNION {[1..n -> ChainCandidates] : n \in 0..MaxChain}

ChainInit ==
    /\ xs \in ChainBatches
    /\ ys \in ChainBatches
    /\ outX = <<>>
    /\ outY = <<>>
    /\ outXY = <<>>
    /\ hpc = "start"
    \* callGeminiWithRetry is not running
    /\ maxRetries = 0
    /\ baseDelay = 0
    /\ attempt = 0
    /\ lastError = Undefined
    /\ pc = "idle"
    /\ calls = 0
    /\ errors = <<>>
    /\ delays = <<>>
    /\ successAt = 0
    /\ returned = 0
    /\ thrown = Undefined
    /\ generating = "none"
    /\ completed = {}
    /\ response = NoResponse
    \* no OAuth handler, middleware or sheet writer is running
    /\ userTokens = <<>>
    /\ credentials = "none"
    /\ reqs = <<>>
    /\ apiCalls = {}
    /\ cookie = "none"
    /\ users = {}
    /\ decoded = "none"
    /\ reqUser = "none"
    /\ statusSent = 0
    /\ nextCalled = FALSE
    /\ mpc = "idle"
    /\ sheet = <<>>
    /\ appends = <<>>
    /\ arrangement = <<>>
    \* the stepwise filter runs and the parsers are not running
    /\ testCases = <<>>
    /\ existingTestCases = <<>>
    /\ cleaned = <<>>
    /\ uniqueCases = <<>>
    /\ seenSummaries = {}
    /\ seenStepsSignatures = {}
    /\ seenPurposes = {}
    /\ duplicateCount = 0
    /\ idx = 0
    /\ reasons = <<>>
    /\ validatedCases = <<>>
    /\ warnings = {}
    /\ vpc = "idle"
    /\ testCases2 = <<>>
    /\ existingTestCases2 = <<>>
    /\ cleaned2 = <<>>
    /\ uniqueCases2 = <<>>
    /\ seenSummaries2 = {}
    /\ seenStepsSignatures2 = {}
    /\ seenPurposes2 = {}
    /\ idx2 = 0
    /\ validatedCases2 = <<>>
    /\ vpc2 = "idle"
    /\ rawText = <<>>
    /\ parsedCases = NoResult
    /\ parsedScenarios = NoResult
    /\ prevText = <<>>
    /\ prevCases = NoResult
    /\ prevScenarios = NoResult
    /\ callNo = 0
    /\ ppc = "idle"

\* validateAndCleanTestCasesEnhanced(X, [])
FilterFirst ==
    /\ hpc = "start"
    /\ outX' = validateAndCleanTestCasesEnhanced(xs, <<>>)
    /\ hpc' = "first"
    /\ UNCHANGED <<xs, ys, outY, outXY>>
    /\ UNCHANGED <<rvars, nvars, pvars, ivars, evars, avars, mvars, svars>>

\* validateAndCleanTestCasesEnhanced(Y, the output of the first run)
FilterSecond ==
    /\ hpc = "first"
    /\ outY' = validateAndCleanTestCasesEnhanced(ys, outX)
    /\ hpc' = "second"
    /\ UNCHANGED <<xs, ys, outX, outXY>>
    /\ UNCHANGED <<rvars, nvars, pvars, ivars, evars, avars, mvars, svars>>

\* validateAndCleanTestCasesEnhanced(X ++ Y, []), of which the records at
\* the positions of Y are kept.
FilterConcat ==
    /\ hpc = "second"
    /\ LET both == xs \o ys
           cl == CleanedOf(both)
           acc == AcceptedPositions(both, <<>>)
           fromY == SelectSeq(acc, LAMBDA k : k > Len(xs))
       IN outXY' = [i \in 1..Len(fromY) |-> cl[fromY[i]]]
    /\ hpc' = "concat"
    /\ UNCHANGED <<xs, ys, outX, outY>>
    /\ UNCHANGED <<rvars, nvars, pvars, ivars, evars, avars, mvars, svars>>

ChainNext == FilterFirst \/ FilterSecond \/ FilterConcat

ChainSpec == ChainInit /\ [][ChainNext]_vars

(***************************************************************************)
(*   Two invocations of parseGeminiJSONEnhanced for different requests     *)
(***************************************************************************)

\* The records the two requests generate: two with the same summary key and
\* one unrelated.
ConcCandidates ==
    <<SimCandidate(3, SumA, <<"Edit", SP, "file">>),
      SimCandidate(4, <<"Verify", SP, "Login", SP>>, StepA),
      SimCandidate(10, <<"Open", SP, "page">>, StepB)>>

\* The batches of one request: up to MaxBatch of them in the order of their ids.
ConcBatches ==
    LET positions == UNION {[1..n -> 1..Len(ConcCandidates)] : n \in 0..MaxBatch}
        ascending == {p \in positions : \A i \in 1..(Len(p) - 1) : p[i] < p[i + 1]}
    IN {[i \in 1..Len(p) |-> ConcCandidates[p[i]]] : p \in ascending}

\* const seenSummaries = new Set() in the body of the function: the name
\* denotes the Set created by the invocation that evaluates it.
SeenSummariesShared == seenSummaries
SeenSummariesInScope2 == seenSummaries2

ConcInit ==
    /\ testCases \in ConcBatches
    /\ existingTestCases \in {<<>>, <<ExistingLogin>>}
    /\ cleaned = <<>>
    /\ uniqueCases = <<>>
    /\ seenSummaries = {}
    /\ seenStepsSignatures = {}
    /\ seenPurposes = {}
    /\ duplicateCount = 0
    /\ idx = 0
    /\ reasons = <<>>
    /\ validatedCases = <<>>
    /\ warnings = {}
    /\ vpc = "start"
    /\ testCases2 \in ConcBatches
    /\ existingTestCases2 = <<>>
    /\ cleaned2 = <<>>
    /\ uniqueCases2 = <<>>
    /\ seenSummaries2 = {}
    /\ seenStepsSignatures2 = {}
    /\ seenPurposes2 = {}
    /\ idx2 = 0
    /\ validatedCases2 = <<>>
    /\ vpc2 = "start"
    \* callGeminiWithRetry is not running
    /\ maxRetries = 0
    /\ baseDelay = 0
    /\ attempt = 0
    /\ lastError = Undefined
    /\ pc = "idle"
    /\ calls = 0
    /\ errors = <<>>
    /\ delays = <<>>
    /\ successAt = 0
    /\ returned = 0
    /\ thrown = Undefined
    /\ generating = "none"
    /\ completed = {}
    /\ response = NoResponse
    \* no OAuth handler, middleware or sheet writer is running
    /\ userTokens = <<>>
    /\ credentials = "none"
    /\ reqs = <<>>
    /\ apiCalls = {}
    /\ cookie = "none"
    /\ users = {}
    /\ decoded = "none"
    /\ reqUser = "none"
    /\ statusSent = 0
    /\ nextCalled = FALSE
    /\ mpc = "idle"
    /\ sheet = <<>>
    /\ appends = <<>>
    /\ arrangement = <<>>
    \* the parsers and the chained runs are not running
    /\ rawText = <<>>
    /\ parsedCases = NoResult
    /\ parsedScenarios = NoResult
    /\ prevText = <<>>
    /\ prevCases = NoResult
    /\ prevScenarios = NoResult
    /\ callNo = 0
    /\ ppc = "idle"
    /\ xs = <<>>
    /\ ys = <<>>
    /\ outX = <<>>
    /\ outY = <<>>
    /\ outXY = <<>>
    /\ hpc = "idle"

\* The steps of the second invocation: the code of ValidateStart, RejectCase,
\* AcceptCase, ValidateReturn and PostValidation on its own locals.
ValidateStart2 ==
    /\ vpc2 = "start"
    /\ cleaned2' = CleanedOf(testCases2)
    /\ seenSummaries2' = {summaryKeyOf(e) : e \in Range(existingTestCases2)}
    /\ seenStepsSignatures2' = {stepsSignatureOf(e) : e \in Range(existingTestCases2)}
    /\ seenPurposes2' = {testPurposeOf(e) : e \in Range(existingTestCases2)}
    /\ idx2' = 1
    /\ vpc2' = "scan"
    /\ UNCHANGED <<testCases2, existingTestCases2, uniqueCases2, validatedCases2>>
    /\ UNCHANGED <<rvars, nvars, pvars, hvars, evars, avars, mvars, svars>>

RejectCase2 ==
    /\ vpc2 = "scan"
    /\ idx2 <= Len(cleaned2)
    /\ IsRejected(cleaned2[idx2], SeenSummariesInScope2, seenStepsSignatures2,
                  seenPurposes2, uniqueCases2)
    /\ idx2' = idx2 + 1
    /\ UNCHANGED <<testCases2, existingTestCases2, cleaned2, uniqueCases2,
                   seenSummaries2, seenStepsSignatures2, seenPurposes2,
                   validatedCases2, vpc2>>
    /\ UNCHANGED <<rvars, nvars, pvars, hvars, evars, avars, mvars, svars>>

AcceptCase2 ==
    /\ vpc2 = "scan"
    /\ idx2 <= Len(cleaned2)
    /\ ~IsRejected(cleaned2[idx2], SeenSummariesInScope2, seenStepsSignatures2,
                   seenPurposes2, uniqueCases2)
    /\ seenSummaries2' = seenSummaries2 \cup {summaryKeyOf(cleaned2[idx2])}
    /\ seenStepsSignatures2' =
          seenStepsSignatures2 \cup {stepsSignatureOf(cleaned2[idx2])}
    /\ seenPurposes2' = seenPurposes2 \cup {testPurposeOf(cleaned2[idx2])}
    /\ uniqueCases2' = Append(uniqueCases2, cleaned2[idx2])
    /\ idx2' = idx2 + 1
    /\ UNCHANGED <<testCases2, existingTestCases2, cleaned2, validatedCases2, vpc2>>
    /\ UNCHANGED <<rvars, nvars, pvars, hvars, evars, avars, mvars, svars>>

ValidateReturn2 ==
    /\ vpc2 = "scan"
    /\ idx2 > Len(cleaned2)
    /\ vpc2' = "done"
    /\ UNCHANGED <<testCases2, existingTestCases2, cleaned2, uniqueCases2,
                   seenSummaries2, seenStepsSignatures2, seenPurposes2, idx2,
                   validatedCases2>>
    /\ UNCHANGED <<rvars, nvars, pvars, hvars, evars, avars, mvars, svars>>

PostValidation2 ==
    /\ vpc2 = "done"
    /\ validatedCases2' = uniqueCases2
    /\ vpc2' = "validated"
    /\ UNCHANGED <<testCases2, existingTestCases2, cleaned2, uniqueCases2,
                   seenSummaries2, seenStepsSignatures2, seenPurposes2, idx2>>
    /\ UNCHANGED <<rvars, nvars, pvars, hvars, evars, avars, mvars, svars>>

\* Any interleaving of the steps of the two invocations.  (The functions are
\* synchronous, so Node runs one invocation to its end before the other
\* starts; these are among the interleavings.)
ConcNext ==
    \/ ValidateStart
    \/ RejectCase
    \/ AcceptCase
    \/ ValidateReturn
    \/ PostValidation
    \/ ValidateStart2
    \/ RejectCase2
    \/ AcceptCase2
    \/ ValidateReturn2
    \/ PostValidation2

ConcSpec == ConcInit /\ [][ConcNext]_vars

\* C9: every record the normalisation step produces has a non-empty id, a
\* non-empty summary and a testSteps value that is one string, whether the
\* candidate's steps were absent, a string or an array of strings.
C9_NormalizedShape ==
    \A i \in 1..Len(cleaned) :
        /\ IsString(cleaned[i].id) /\ cleaned[i].id.s # <<>>
        /\ IsString(cleaned[i].summary) /\ cleaned[i].summary.s # <<>>
        /\ IsString(cleaned[i].testSteps)

C9_Witness ==
    /\ vpc = "done"
    /\ Len(testCases) = 2
    /\ Len(cleaned) = 2
    /\ testCases[1].testSteps = JsUndefined
    /\ testCases[1].steps.t = "array"
    /\ cleaned[1].testSteps = JsString(StepC)
    /\ testCases[2].testSteps = JsArray(<<StepA, StepB>>)
    /\ cleaned[2].testSteps = JsString(StepA \o <<NL>> \o StepB)
    /\ testCases[2].id = JsUndefined
    /\ cleaned[2].id = JsString(<<"PC_", "2">>)

\* C10: no two records of the sequence returned for one batch have the same
\* id, also when some ids are model-assigned and others synthesized.
C10_UniqueIdsInBatch ==
    vpc = "done" =>
        \A i, j \in 1..Len(uniqueCases) :
            i # j => uniqueCases[i].id # uniqueCases[j].id

\* The validator has returned.
ValidatorDone == vpc \in {"done", "validated"}

\* out is a subsequence of inp: its records are records of inp, in the
\* order of inp, each position of inp used at most once.
IsSubsequence(out, inp) ==
    \E f \in [1..Len(out) -> 1..Len(inp)] :
        /\ \A k \in 1..Len(out) : out[k] = inp[f[k]]
        /\ \A k, l \in 1..Len(out) : k < l => f[k] < f[l]

C11_OutputOfNormalized ==
    ValidatorDone =>
        /\ IsSubsequence(uniqueCases, CleanedOf(testCases))
        /\ \A k, l \in 1..Len(uniqueCases) : k # l => uniqueCases[k] # uniqueCases[l]
        /\ \A k \in 1..Len(uniqueCases) : uniqueCases[k] \notin Range(existingTestCases)

\* C11: the output of validateAndCleanTestCasesEnhanced is an
\* order-preserving subsequence of the normalised new records, without a
\* record twice and without a record of the existing ones, and the existing
\* records are left as they were.
C11_OrderPreservingSubsequence ==
    /\ []C11_OutputOfNormalized
    /\ [][existingTestCases' = existingTestCases]_vars

\* A batch of two whose first record is the existing record itself: only
\* the second is returned.
C11_Witness ==
    /\ ValidatorDone
    /\ existingTestCases = <<ExistingLogin>>
    /\ Len(cleaned) = 2
    /\ cleaned[1] = ExistingLogin
    /\ uniqueCases = <<cleaned[2]>>

\* Records i and j of cleaned have summaries that are equal after
\* lower-casing and trimming.
SameSummary(i, j) == summaryKeyOf(cleaned[i]) = summaryKeyOf(cleaned[j])

Accepted(i) == reasons[i] = "accepted"

\* C12 as stated: of two records of the batch with equal summaries the
\* later one is never in the output, whether the earlier one was accepted or
\* rejected.
C12_LaterTwinNeverReturned ==
    ValidatorDone =>
        \A i, j \in 1..Len(cleaned) : i < j /\ SameSummary(i, j) => ~Accepted(j)

\* C12 amended: the later one is never in the output when the earlier one
\* was accepted or an existing record has that summary.
C12_LaterTwinOfAcceptedNeverReturned ==
    ValidatorDone =>
        /\ \A i, j \in 1..Len(cleaned) :
               i < j /\ SameSummary(i, j) /\ Accepted(i) => ~Accepted(j)
        /\ \A j \in 1..Len(cleaned) :
               (\E e \in Range(existingTestCases) :
                    summaryKeyOf(e) = summaryKeyOf(cleaned[j])) => ~Accepted(j)

\* Two records whose summaries differ in case and spaces only and that share
\* neither steps nor purpose words: the first is kept, the second dropped by
\* the summary check.
C12_Witness ==
    /\ ValidatorDone
    /\ Len(cleaned) = 2
    /\ cleaned[1].summary # cleaned[2].summary
    /\ SameSummary(1, 2)
    /\ testPurposeOf(cleaned[2]) = <<>>
    /\ reasons = <<"accepted", "summary">>

\* C13: for all sequences X and Y of normalised records the survivors of Y
\* are the same when X is filtered against no existing records and Y against
\* that output, and when X ++ Y is filtered against no existing records and
\* the survivors that come from Y are taken.
C13_ChainedRunsAgree == hpc = "concat" => outY = outXY

\* C14: a batch of two records with the summaries "Verify login with valid
\* email and password" and "Check login using correct email and password",
\* in this order, and no existing records: the first is kept and the second
\* is rejected as a near-duplicate.
C14_NearDuplicateRejected ==
    (/\ ValidatorDone
     /\ existingTestCases = <<>>
     /\ Len(testCases) = 2
     /\ testCases[1].summary = JsString(LongSumA)
     /\ testCases[2].summary = JsString(LongSumB))
    => /\ Len(cleaned) = 2
       /\ reasons[1] = "accepted"
       /\ reasons[2] # "accepted"
       /\ uniqueCases = <<cleaned[1]>>

\* The records of cleaned that passed the four checks, in order.
AcceptedRecords ==
    LET positions == SelectSeq([i \in 1..Len(cleaned) |-> i],
                               LAMBDA i : reasons[i] = "accepted")
    IN [k \in 1..Len(positions) |-> cleaned[positions[k]]]

\* C15: performPostGenerationValidation returns exactly the sequence that
\* validateAndCleanTestCasesEnhanced produced, whether or not the duplicate
\* rate, submodule variety or type balance warnings fire; the warnings never
\* stop it, and it returns the empty sequence when every record was rejected.
C15_WarningsAreAdvisory ==
    /\ vpc = "done" => ENABLED PostValidation
    /\ vpc = "validated" =>
          /\ validatedCases = uniqueCases
          /\ validatedCases = AcceptedRecords
          /\ (\A i \in 1..Len(reasons) : reasons[i] # "accepted") =>
                validatedCases = <<>>

\* One record, dropped because the sheet already has its summary: all three
\* warnings fire and the empty sequence is returned.
C15_Witness ==
    /\ vpc = "validated"
    /\ Len(testCases) = 1
    /\ reasons = <<"summary">>
    /\ warnings = {"duplicates", "variety", "balance"}
    /\ validatedCases = <<>>

\* C16: two invocations of the pipeline that run interleaved for different
\* requests each return what they return when run alone, and no step of one
\* invocation changes the seen-summary, seen-steps or seen-purpose set of
\* the other.
C16_ReturnsAsAlone ==
    /\ vpc = "validated" =>
          validatedCases =
             validateAndCleanTestCasesEnhanced(testCases, existingTestCases)
    /\ vpc2 = "validated" =>
          validatedCases2 =
             validateAndCleanTestCasesEnhanced(testCases2, existingTestCases2)

C16_InvocationsIndependent ==
    /\ []C16_ReturnsAsAlone
    /\ [][(vpc2' # vpc2 \/ idx2' # idx2) =>
             UNCHANGED <<seenSummaries, seenStepsSignatures, seenPurposes>>]_vars
    /\ [][(vpc' # vpc \/ idx' # idx) =>
             UNCHANGED <<seenSummaries2, seenStepsSignatures2, seenPurposes2>>]_vars

\* Both invocations have returned, and each kept a record with the summary
\* key the other one has seen.
C16_Witness ==
    /\ vpc = "validated"
    /\ vpc2 = "validated"
    /\ existingTestCases = <<>>
    /\ Len(validatedCases) = 1
    /\ Len(validatedCases2) = 1
    /\ validatedCases[1] # validatedCases2[1]
    /\ seenSummaries = seenSummaries2

\* The two kinds of AI failure the handler tells apart.
IsOverloadError(e) == Includes(e.msg, "503") \/ Includes(e.msg, "overloaded")
IsRateLimitError(e) == Includes(e.msg, "429") \/ Includes(e.msg, "rate limit")
AICallFailed == pc = "responded" /\ thrown # Undefined

\* C17: when the AI call finally fails with an overload error the response
\* is HTTP 503, SERVICE_OVERLOADED, retryAfter 60000; with a rate-limit error
\* it is HTTP 429, RATE_LIMITED, retryAfter 30000; every other AI failure
\* yields a response without a retry-after hint; for the test cases and for
\* the test scenarios alike.
C17_ErrorResponses ==
    AICallFailed =>
       /\ IsOverloadError(thrown) =>
             response = RetryResponse(503, "SERVICE_OVERLOADED", 60000)
       /\ IsRateLimitError(thrown) =>
             response = RetryResponse(429, "RATE_LIMITED", 30000)
       /\ ~IsOverloadError(thrown) /\ ~IsRateLimitError(thrown) =>
             ~response.hasRetryAfter

\* C17 as the code has it: the overload test comes first, so the rate-limit
\* response is sent for a rate-limit error that is not also an overload
\* error.
C17_ErrorResponsesOverloadFirst ==
    AICallFailed =>
       /\ IsOverloadError(thrown) =>
             response = RetryResponse(503, "SERVICE_OVERLOADED", 60000)
       /\ IsRateLimitError(thrown) /\ ~IsOverloadError(thrown) =>
             response = RetryResponse(429, "RATE_LIMITED", 30000)
       /\ ~IsOverloadError(thrown) /\ ~IsRateLimitError(thrown) =>
             ~response.hasRetryAfter

\* The scenario generation failed three times, last with a message that
\* holds both 429 and 503.
C17_Witness ==
    /\ AICallFailed
    /\ generating = "testScenarios"
    /\ calls = ControllerMaxRetries
    /\ thrown.msg = {"429", "503"}
    /\ response.status = 503

\* value >= pct/100
AtLeast(f, pct) == f.den # 0 /\ f.num * 100 >= pct * f.den

\* The contents of seenStepsSignatures and seenPurposes when record i of
\* cleaned is examined: those of the existing records and of the records
\* accepted before it.
SignaturesBefore(i) ==
    {stepsSignatureOf(e) : e \in Range(existingTestCases)}
    \cup {stepsSignatureOf(cleaned[j]) : j \in {k \in 1..(i - 1) : Accepted(k)}}

PurposesBefore(i) ==
    {testPurposeOf(e) : e \in Range(existingTestCases)}
    \cup {testPurposeOf(cleaned[j]) : j \in {k \in 1..(i - 1) : Accepted(k)}}

StepsSimilarityAtLeast(i, pct) ==
    \E sig \in SignaturesBefore(i) :
        AtLeast(calculateAdvancedSimilarity(stepsSignatureOf(cleaned[i]), sig), pct)

PurposeSimilarityAbove(i, pct) ==
    \E p \in PurposesBefore(i) :
        GreaterThan(calculatePurposeSimilarity(testPurposeOf(cleaned[i]), p), pct)

\* Record i was dropped because of its steps: by the steps check, or by the
\* check within the batch when no purpose is similar.
RejectedOnSteps(i) ==
    \/ reasons[i] = "steps"
    \/ reasons[i] = "batch" /\ ~PurposeSimilarityAbove(i, BatchThreshold)

\* C19: the steps criterion rejects a record exactly when the similarity of
\* its step signature to some previously seen step signature (of an existing
\* record or of an earlier accepted record of the batch) is at least 0.75:
\* 0.75 exactly rejects, and a similarity below 0.75 against every seen
\* signature never rejects on grounds of steps.
C19_StepsRejectAtThreshold ==
    ValidatorDone =>
        \A i \in 1..Len(cleaned) :
            reasons[i] # "summary" =>
                /\ StepsSimilarityAtLeast(i, StepsThreshold) => ~Accepted(i)
                /\ ~StepsSimilarityAtLeast(i, StepsThreshold) => ~RejectedOnSteps(i)

\* The ratio of the claim: words shared by both signatures over distinct
\* words across both, as numerator and denominator.
SharedWords(p1, p2) == Cardinality(Range(SplitSpace(p1)) \cap Range(SplitSpace(p2)))
DistinctWords(p1, p2) == Cardinality(Range(SplitSpace(p1)) \cup Range(SplitSpace(p2)))

\* C20: a record is rejected whenever the ratio (words shared by both purpose
\* signatures) / (distinct words across both) between its purpose signature
\* and some previously seen one is at least 0.70, and the ratio the code
\* computes always lies between 0 and 1.
C20_PurposeRatio ==
    ValidatorDone =>
        \A i \in 1..Len(cleaned) : \A p \in PurposesBefore(i) :
            LET mine == testPurposeOf(cleaned[i])
                ratio == calculatePurposeSimilarity(mine, p)
            IN /\ (/\ mine # <<>>
                   /\ p # <<>>
                   /\ 100 * SharedWords(mine, p) >=
                         PurposeThreshold * DistinctWords(mine, p))
                  => ~Accepted(i)
               /\ ratio.num >= 0
               /\ ratio.num <= ratio.den

ValidatorScanning == vpc \in {"scan", "done", "validated"}

\* The batch records accepted so far.
AcceptedSoFar == {cleaned[j] : j \in {k \in 1..Len(reasons) : Accepted(k)}}

\* C21: while the batch is scanned the seen-summary, seen-steps and
\* seen-purpose sets hold exactly the signatures of the existing records and
\* of the batch records accepted so far: a rejected record adds nothing, an
\* accepted record adds its three signatures before the next one is examined.
C21_SeenSetsExact ==
    ValidatorScanning =>
        /\ Len(reasons) = idx - 1
        /\ seenSummaries =
              {summaryKeyOf(e) : e \in Range(existingTestCases) \cup AcceptedSoFar}
        /\ seenStepsSignatures =
              {stepsSignatureOf(e) : e \in Range(existingTestCases) \cup AcceptedSoFar}
        /\ seenPurposes =
              {testPurposeOf(e) : e \in Range(existingTestCases) \cup AcceptedSoFar}

\* Two records examined: the first accepted, the second dropped for its
\* steps, and its summary and purpose are in no seen set.
C21_Witness ==
    /\ vpc = "scan"
    /\ idx = 3
    /\ reasons = <<"accepted", "batch">>
    /\ summaryKeyOf(cleaned[2]) \notin seenSummaries
    /\ testPurposeOf(cleaned[2]) \notin seenPurposes
    /\ stepsSignatureOf(cleaned[1]) \in seenStepsSignatures

\* A value that is present and not empty: a string with characters or an
\* array with elements.
NonEmpty(v) == (v.t = "string" /\ v.s # <<>>) \/ (v.t = "array" /\ v.a # <<>>)

\* The value as one string: an array joined with newlines.
AsOneString(v) == IF v.t = "array" THEN JsString(Join(v.a, <<NL>>)) ELSE v

FirstNonEmpty(a, b, default) ==
    IF NonEmpty(a) THEN AsOneString(a)
    ELSE IF NonEmpty(b) THEN AsOneString(b)
    ELSE default

\* C22: for the candidate at position i the normaliser sets id to the
\* candidate's id if non-empty, else PC_<i+1>; testSteps to testSteps if
\* non-empty, else steps, an array joined with newlines; expectedResults to
\* expectedResults if non-empty, else expectedResult; summary to summary, else
\* title, else 'Test Case <i+1>'; testCaseType, environment and status to the
\* candidate's value, else 'Positive', 'Test', 'Not Tested'.  A non-empty
\* value is never replaced by an alternate spelling or a default.
C22_NormalizerFields ==
    ValidatorScanning =>
        /\ Len(cleaned) = Len(testCases)
        /\ \A i \in 1..Len(cleaned) :
              LET tc == testCases[i]
                  n == cleaned[i]
                  number == ToString(i)
              IN /\ n.id = FirstNonEmpty(tc.id, JsUndefined, JsString(<<"PC_", number>>))
                 /\ n.testSteps = FirstNonEmpty(tc.testSteps, tc.steps, EmptyString)
                 /\ n.expectedResults =
                       FirstNonEmpty(tc.expectedResults, tc.expectedResult, EmptyString)
                 /\ n.summary =
                       FirstNonEmpty(tc.summary, tc.title,
                                     JsString(<<"Test", SP, "Case", SP, number>>))
                 /\ n.testCaseType =
                       FirstNonEmpty(tc.testCaseType, JsUndefined, JsString(<<"Positive">>))
                 /\ n.environment =
                       FirstNonEmpty(tc.environment, JsUndefined, JsString(<<"Test">>))
                 /\ n.status =
                       FirstNonEmpty(tc.status, JsUndefined,
                                     JsString(<<"Not", SP, "Tested">>))

\* C23: the wait between a retryable failure on attempt k (k < maxRetries)
\* and attempt k+1 is at least baseDelay * 2^(k-1) and less than
\* baseDelay * 2^(k-1) + 1000 ms; there is no wait before the first attempt
\* and none after the failure of the last attempt.
C23_BackoffBounds ==
    /\ \A k \in 1..Len(delays) :
          /\ k < maxRetries
          /\ k <= Len(errors)
          /\ Retryable(errors[k])
          /\ baseDelay * 2 ^ (k - 1) <= delays[k]
          /\ delays[k] < baseDelay * 2 ^ (k - 1) + 1000
    /\ calls = 0 => delays = <<>>
    /\ Len(delays) <= calls
    /\ pc = "wait" => Len(delays) = calls
    /\ pc \in {"call", "threw", "returned"} /\ calls > 0 =>
          Len(delays) = (IF pc = "call" THEN calls ELSE calls - 1)

\* Three retryable failures with maxRetries = 3: two waits, the second with
\* the largest jitter, and the error thrown without a third wait.
C23_Witness ==
    /\ pc = "threw"
    /\ maxRetries = 3
    /\ calls = 3
    /\ Len(delays) = 2
    /\ delays[2] = 2 * baseDelay + 999
    /\ Retryable(thrown)

\* C24: when the model output is fully unparseable and there are no existing
\* records, parseGeminiJSONEnhanced returns the whole placeholder sequence:
\* all 20 records PC_1..PC_20 pass the duplicate filter.
C24_PlaceholdersSurvive ==
    (/\ vpc = "validated"
     /\ parsedCases.strategy = "fallback"
     /\ existingTestCases = <<>>)
    => /\ Len(validatedCases) = 20
       /\ \A i \in 1..Len(validatedCases) :
             validatedCases[i].id = JsString(<<"PC_", ToString(i)>>)

(***************************************************************************)
(*                              JSON.parse                                 *)
(*                                                                         *)
(* A parsed value is a node: t is its type, s the characters of a string  *)
(* (the digits of a number), items the elements of an array, members the  *)
(* key/value pairs of an object in the order of the text.                 *)
(***************************************************************************)

Node(t, s, items, members) == [t |-> t, s |-> s, items |-> items, members |-> members]
NullNode == Node("null", <<>>, <<>>, <<>>)

ParseFailure == [ok |-> FALSE, v |-> NullNode, next |-> 0]
Parsed(v, next) == [ok |-> TRUE, v |-> v, next |-> next]

\* The first position at or after i that holds no whitespace.
RECURSIVE SkipWs(_, _)
SkipWs(t, i) == IF i <= Len(t) /\ IsSpace(t[i]) THEN SkipWs(t, i + 1) ELSE i

\* The position of the first double quote at or after i, 0 if there is none.
RECURSIVE FindQuote(_, _)
FindQuote(t, i) ==
    IF i > Len(t) THEN 0
    ELSE IF t[i] = QUOTE THEN i
    ELSE FindQuote(t, i + 1)

\* The characters a string literal stands for.
UnescapeTok(tok) == IF tok = BSN THEN NL ELSE IF tok = BST THEN TAB ELSE tok
Unescape(s) == [i \in 1..Len(s) |-> UnescapeTok(s[i])]

\* A string literal whose opening quote is at i: a literal line break or
\* tab inside the quotes is a syntax error.
ParseString(t, i) ==
    LET close == FindQuote(t, i + 1)
    IN IF close = 0 THEN ParseFailure
       ELSE IF \E j \in (i + 1)..(close - 1) : t[j] \in {NL, TAB} THEN ParseFailure
       ELSE Parsed(Node("string", Unescape(SubSeq(t, i + 1, close - 1)), <<>>, <<>>),
                   close + 1)

RECURSIVE ParseValue(_, _)
RECURSIVE ArrayItems(_, _, _)
RECURSIVE ObjectMembers(_, _, _)

\* The value that starts at position i (whitespace already skipped).
ParseValue(t, i) ==
    IF i > Len(t) THEN ParseFailure
    ELSE IF t[i] = QUOTE THEN ParseString(t, i)
    ELSE IF IsDigits(t[i]) THEN Parsed(Node("number", <<t[i]>>, <<>>, <<>>), i + 1)
    ELSE IF t[i] = "null" THEN Parsed(NullNode, i + 1)
    ELSE IF t[i] \in {"true", "false"}
         THEN Parsed(Node("boolean", <<t[i]>>, <<>>, <<>>), i + 1)
    ELSE IF t[i] = LBRACK
         THEN LET j == SkipWs(t, i + 1)
              IN IF j <= Len(t) /\ t[j] = RBRACK
                 THEN Parsed(Node("array", <<>>, <<>>, <<>>), j + 1)
                 ELSE ArrayItems(t, j, <<>>)
    ELSE IF t[i] = LBRACE
         THEN LET j == SkipWs(t, i + 1)
              IN IF j <= Len(t) /\ t[j] = RBRACE
                 THEN Parsed(Node("object", <<>>, <<>>, <<>>), j + 1)
                 ELSE ObjectMembers(t, j, <<>>)
    ELSE ParseFailure

\* The elements of an array from position i on, acc being those before.
ArrayItems(t, i, acc) ==
    LET item == ParseValue(t, i)
        k == SkipWs(t, item.next)
    IN IF ~item.ok \/ k > Len(t) THEN ParseFailure
       ELSE IF t[k] = RBRACK
            THEN Parsed(Node("array", <<>>, Append(acc, item.v), <<>>), k + 1)
       ELSE IF t[k] = COMMA
            THEN ArrayItems(t, SkipWs(t, k + 1), Append(acc, item.v))
       ELSE ParseFailure

\* The members of an object from position i on, acc being those before.
ObjectMembers(t, i, acc) ==
    IF i > Len(t) \/ t[i] # QUOTE THEN ParseFailure
    ELSE LET key == ParseString(t, i)
             c == SkipWs(t, key.next)
         IN IF ~key.ok \/ c > Len(t) \/ t[c] # COLON THEN ParseFailure
            ELSE LET val == ParseValue(t, SkipWs(t, c + 1))
                     k == SkipWs(t, val.next)
                     member == [key |-> key.v.s, val |-> val.v]
                 IN IF ~val.ok \/ k > Len(t) THEN ParseFailure
                    ELSE IF t[k] = RBRACE
                         THEN Parsed(Node("object", <<>>, <<>>, Append(acc, member)), k + 1)
                    ELSE IF t[k] = COMMA
                         THEN ObjectMembers(t, SkipWs(t, k + 1), Append(acc, member))
                    ELSE ParseFailure

\* JSON.parse(text): one value with nothing but whitespace around it;
\* ok = FALSE is a SyntaxError.
JSONParse(t) ==
    LET r == ParseValue(t, SkipWs(t, 1))
    IN IF r.ok /\ SkipWs(t, r.next) = Len(t) + 1 THEN r ELSE ParseFailure

\* The value of a parsed node as the program uses it.
StringOfNode(n) == IF n.t \in {"string", "number", "boolean"} THEN n.s ELSE <<>>

FlatValue(n) ==
    CASE n.t = "string" -> JsString(n.s)
      [] n.t = "number" -> [t |-> "number", s |-> n.s, a |-> <<>>]
      [] n.t = "boolean" -> JsBoolean(n.s)
      [] n.t = "array" -> JsArray([i \in 1..Len(n.items) |-> StringOfNode(n.items[i])])
      [] n.t = "object" -> JsObject
      [] OTHER -> JsNull

\* node.name for an object node (the last member of that name wins);
\* undefined for any other value that is not null.
FieldOf(n, name) ==
    LET at == {i \in 1..Len(n.members) : n.members[i].key = <<name>>}
    IN IF at = {} THEN JsUndefined
       ELSE FlatValue(n.members[CHOOSE i \in at : \A j \in at : j <= i].val)

\* An element of the parsed array: null (a property access throws) or the
\* fields the program reads from it.
ElementOf(n) == [isNull |-> n.t = "null", f |-> [name \in CandFields |-> FieldOf(n, name)]]

ElementsOf(n) == [i \in 1..Len(n.items) |-> ElementOf(n.items[i])]

(***************************************************************************)
(*            validateAndCleanTestCases (used by parseGeminiJSON)          *)
(***************************************************************************)

\* calculateSimpleSimilarity(...) > 0.85
SimpleThreshold == 85

\* How a block of code ends: it returns val, it throws, or it runs to its
\* end without returning.
Threw == [status |-> "threw", val |-> <<>>]
Returned(val) == [status |-> "returned", val |-> val]
Skipped == [status |-> "skipped", val |-> <<>>]

\* tc.testSteps.toLowerCase().replace(/\s+/g, ' ').trim()
SimpleStepsSignature(tc) == Trim(CollapseSpaces(ToLowerCase(tc.testSteps.s)))

\* cleaned.forEach(...): the records kept, uniq/summaries/signatures being
\* the result of the records before.
RECURSIVE SimpleDedup(_, _, _, _)
SimpleDedup(rest, uniq, summaries, signatures) ==
    IF rest = <<>> THEN uniq
    ELSE LET tc == Head(rest)
             summaryKey == summaryKeyOf(tc)
             stepsSignature == SimpleStepsSignature(tc)
             isSimilar == \E existingSteps \in signatures :
                 GreaterThan(calculateSimpleSimilarity(stepsSignature, existingSteps),
                             SimpleThreshold)
         IN IF summaryKey \in summaries \/ isSimilar
            THEN SimpleDedup(Tail(rest), uniq, summaries, signatures)
            ELSE SimpleDedup(Tail(rest), Append(uniq, tc), summaries \cup {summaryKey},
                             signatures \cup {stepsSignature})

\* validateAndCleanTestCases(elems): Threw is the TypeError of a property
\* access on null or of toLowerCase on a value that is no string.
validateAndCleanTestCases(elems) ==
    IF \E i \in 1..Len(elems) : elems[i].isNull THEN Threw
    ELSE LET cl == CleanedOf([i \in 1..Len(elems) |-> elems[i].f])
         IN IF \E i \in 1..Len(cl) : ~IsString(cl[i].summary) \/ ~IsString(cl[i].testSteps)
            THEN Threw
            ELSE Returned(SimpleDedup(cl, <<>>, {}, {}))

\* The fields validateAndCleanTestScenarios reads.
ScenarioFields == {"id", "module", "condition", "testScenarios", "description", "status"}

ScenarioElementOf(n) ==
    [isNull |-> n.t = "null", f |-> [name \in ScenarioFields |-> FieldOf(n, name)]]

NormalizeScenario(sc, index) ==
    [id |-> OrElse(sc.id, JsString(<<"TS_", ToString(index + 1)>>)),
     module |-> OrElse(sc.module, EmptyString),
     condition |-> OrElse(sc.condition, EmptyString),
     testScenarios |->
         OrElse(sc.testScenarios,
                OrElse(sc.description,
                       JsString(<<"Test", SP, "Scenario", SP, ToString(index + 1), SP,
                                  "Description">>))),
     status |-> OrElse(sc.status, JsString(<<"Not", SP, "Tested">>))]

HasTestScenarios(sc) == Truthy(sc.testScenarios)

validateAndCleanTestScenarios(elems) ==
    IF \E i \in 1..Len(elems) : elems[i].isNull THEN Threw
    ELSE Returned(SelectSeq([i \in 1..Len(elems) |-> NormalizeScenario(elems[i].f, i - 1)],
                            HasTestScenarios))

(***************************************************************************)
(*                  Manual extraction and placeholders                     *)
(***************************************************************************)

\* /"id":\s*"(PC_\d+)"/ matches at position i of t; the value starts at
\* IdValueAt(t, i).
IdValueAt(t, i) == SkipWs(t, i + 4) + 1

IdMatchAt(t, i) ==
    /\ i + 3 <= Len(t)
    /\ t[i] = QUOTE /\ t[i + 1] = "id" /\ t[i + 2] = QUOTE /\ t[i + 3] = COLON
    /\ LET v == IdValueAt(t, i)
       IN /\ v + 2 <= Len(t)
          /\ t[v - 1] = QUOTE
          /\ t[v] = "PC_"
          /\ IsDigits(t[v + 1])
          /\ t[v + 2] = QUOTE

\* new RegExp(`"${fieldName}":\s*"([^"]*)"`, 'i') matches at position i of t.
FieldMatchAt(t, i, fieldName) ==
    /\ i + 3 <= Len(t)
    /\ t[i] = QUOTE /\ LowerTok(t[i + 1]) = LowerTok(fieldName)
    /\ t[i + 2] = QUOTE /\ t[i + 3] = COLON
    /\ LET q == SkipWs(t, i + 4)
       IN q <= Len(t) /\ t[q] = QUOTE /\ FindQuote(t, q + 1) # 0

\* match[1].replace(/\\n/g, '\n')
UnescapeNewlines(s) == [i \in 1..Len(s) |-> IF s[i] = BSN THEN NL ELSE s[i]]

\* extractField(text, fieldName): the first match in text, '' if none.
extractField(t, fieldName) ==
    LET at == {i \in 1..Len(t) : FieldMatchAt(t, i, fieldName)}
    IN IF at = {} THEN <<>>
       ELSE LET i == CHOOSE i \in at : \A j \in at : i <= j
                q == SkipWs(t, i + 4)
            IN UnescapeNewlines(SubSeq(t, q + 1, FindQuote(t, q + 1) - 1))

\* a || b on strings
StrOr(a, b) == IF a # <<>> THEN a ELSE b

\* The positions of the matches of the id pattern, in order (two matches
\* cannot overlap: the pattern starts with "id": and holds it once).
IdMatches(t) ==
    LET IsMatch(i) == IdMatchAt(t, i)
    IN SelectSeq([i \in 1..Len(t) |-> i], IsMatch)

manuallyParseTestCases(text) ==
    LET matches == IdMatches(text)
        tcText(i) == SubSeq(text, matches[i],
                            IF i < Len(matches) THEN matches[i + 1] - 1 ELSE Len(text))
        testCase(i) ==
            LET seg == tcText(i)
                v == IdValueAt(text, matches[i])
            IN [id |-> JsString(<<text[v], text[v + 1]>>),
                module |-> JsString(extractField(seg, "module")),
                submodule |-> JsString(extractField(seg, "submodule")),
                summary |-> JsString(extractField(seg, "summary")),
                testSteps |-> JsString(extractField(seg, "testSteps")),
                expectedResults |-> JsString(extractField(seg, "expectedResults")),
                testCaseType |->
                    JsString(StrOr(extractField(seg, "testCaseType"), <<"Positive">>)),
                environment |-> JsString(StrOr(extractField(seg, "environment"), <<"Test">>)),
                status |->
                    JsString(StrOr(extractField(seg, "status"), <<"Not", SP, "Tested">>))]
    IN SelectSeq([i \in 1..Len(matches) |-> testCase(i)], HasSummary)

\* for (let i = 1; i <= 20; i++) in getFallbackTestCases
FallbackCount == 20
\* for (let i = 1; i <= 10; i++) in getFallbackTestScenarios
ScenarioFallbackCount == 10
\* i % 4 === 0 ? 'Negative' : 'Positive'
NegativeEvery == 4

FallbackCase(i) ==
    [id |-> JsString(<<"PC_", ToString(i)>>),
     module |-> JsString(<<"Test", SP, "Module">>),
     submodule |-> JsString(<<"Test", SP, "Submodule">>),
     summary |-> JsString(<<"Test", SP, "Case", SP, ToString(i), SP, "Summary">>),
     testSteps |->
         JsString(<<"Step", SP, "1", ".", SP, "Perform", SP, "action", SP, "for", SP,
                    "test", SP, "case", SP, ToString(i), NL,
                    "Step", SP, "2", ".", SP, "Verify", SP, "result", NL,
                    "Step", SP, "3", ".", SP, "Validate", SP, "outcome">>),
     expectedResults |->
         JsString(<<"Expected", SP, "result", SP, "for", SP, "test", SP, "case", SP,
                    ToString(i)>>),
     testCaseType |->
         JsString(IF i % NegativeEvery = 0 THEN <<"Negative">> ELSE <<"Positive">>),
     environment |-> JsString(<<"Test">>),
     status |-> JsString(<<"Not", SP, "Tested">>)]

getFallbackTestCasesShort == [i \in 1..(FallbackCount - 1) |-> FallbackCase(i)]
getFallbackTestCases == [i \in 1..FallbackCount |-> FallbackCase(i)]

conditions ==
    << <<"Using", SP, "Valid", SP, "Credentials", SP, "for", SP, "Login">>,
       <<"Using", SP, "Invalid", SP, "Credentials", SP, "for", SP, "Login">>,
       <<"Forgot", SP, "Password">>,
       <<"Language", SP, "Change">>,
       <<"Attempt", SP, "with", SP, "empty", SP, "fields">> >>

FallbackScenario(i) ==
    [id |-> JsString(<<"TS_", ToString(i)>>),
     module |-> JsString(<<"Test", SP, "Module">>),
     condition |-> JsString(conditions[((i - 1) % Len(conditions)) + 1]),
     testScenarios |->
         JsString(<<"Test", SP, "Scenario", SP, ToString(i), COLON, SP,
                    "End", "-", "to", "-", "end", SP, "workflow", SP, "testing", SP,
                    "for", SP, "the", SP, "module", SP, "functionality">>),
     status |-> JsString(<<"Not", SP, "Tested">>)]

getFallbackTestScenarios == [i \in 1..ScenarioFallbackCount |-> FallbackScenario(i)]

(***************************************************************************)
(*               parseGeminiJSON and parseTestScenariosJSON                *)
(***************************************************************************)

\* t without the positions in removed.
Without(t, removed) ==
    LET Kept(i) == i \notin removed
        kept == SelectSeq([i \in 1..Len(t) |-> i], Kept)
    IN [k \in 1..Len(kept) |-> t[kept[k]]]

\* Positions from..i of t are all whitespace.
AllSpace(t, from, i) == \A k \in from..i : IsSpace(t[k])

\* replace(/<fence>json\s*/g, ''): a position goes when it is in a match,
\* which is the fence, the word json and the whitespace after it.
RemoveJsonFences(t) ==
    LET MatchAt(m) == m + 1 <= Len(t) /\ t[m] = FENCE /\ t[m + 1] = "json"
        removed == {i \in 1..Len(t) : \E m \in 1..i : MatchAt(m) /\ AllSpace(t, m + 2, i)}
    IN Without(t, removed)

\* replace(/<fence>\s*/g, '')
RemoveFences(t) ==
    LET removed == {i \in 1..Len(t) : \E m \in 1..i : t[m] = FENCE /\ AllSpace(t, m + 1, i)}
    IN Without(t, removed)

cleanedTextOf(text) == Trim(RemoveFences(RemoveJsonFences(text)))

\* indexOf / lastIndexOf, 1-based; 0 is JavaScript's -1
IndexOf(t, tok) ==
    IF \E i \in 1..Len(t) : t[i] = tok
    THEN CHOOSE i \in 1..Len(t) : t[i] = tok /\ \A j \in 1..(i - 1) : t[j] # tok
    ELSE 0

LastIndexOf(t, tok) ==
    IF \E i \in 1..Len(t) : t[i] = tok
    THEN CHOOSE i \in 1..Len(t) : t[i] = tok /\ \A j \in (i + 1)..Len(t) : t[j] # tok
    ELSE 0

\* startIndex === -1 || endIndex === -1 || endIndex <= startIndex
NoArrayBoundaries(cleanedText) ==
    LET startIndex == IndexOf(cleanedText, LBRACK)
        endIndex == LastIndexOf(cleanedText, RBRACK)
    IN startIndex = 0 \/ endIndex = 0 \/ endIndex <= startIndex

\* cleanedText.substring(startIndex, endIndex + 1)
jsonStringOf(cleanedText) ==
    SubSeq(cleanedText, IndexOf(cleanedText, LBRACK), LastIndexOf(cleanedText, RBRACK))

\* replace(/,(\s*[}\]])/g, '$1'): the commas that only whitespace separates
\* from a closing brace or bracket go.
RemoveTrailingCommas(t) ==
    LET removed == {i \in 1..Len(t) :
                       /\ t[i] = COMMA
                       /\ SkipWs(t, i + 1) <= Len(t)
                       /\ t[SkipWs(t, i + 1)] \in {RBRACE, RBRACK}}
    IN Without(t, removed)

\* replace(/\n/g, '\\n') ... replace(/\t/g, '\\t')
EscapeControl(t) ==
    [i \in 1..Len(t) |-> IF t[i] = NL THEN BSN ELSE IF t[i] = TAB THEN BST ELSE t[i]]

fixedJsonOf(jsonString) == EscapeControl(RemoveTrailingCommas(jsonString))

\* Array.isArray(parsed) && parsed.length > 0
IsArray(v) == v.t = "array"
IsNonEmptyArray(v) == v.t = "array" /\ Len(v.items) > 0

\* The body of a try block: JSON.parse, the test on the array, the
\* validation of its elements.
TryParse(json) ==
    LET p == JSONParse(json)
    IN IF ~p.ok THEN Threw
       ELSE IF IsNonEmptyArray(p.v) THEN validateAndCleanTestCases(ElementsOf(p.v))
       ELSE Skipped

TryParseScenarios(json) ==
    LET p == JSONParse(json)
    IN IF ~p.ok THEN Threw
       ELSE IF IsNonEmptyArray(p.v)
            THEN validateAndCleanTestScenarios(
                     [i \in 1..Len(p.v.items) |-> ScenarioElementOf(p.v.items[i])])
       ELSE Skipped

\* catch (error) { console.log(...) }: the function goes on after the block.
CatchAndLog(r) == IF r.status = "threw" THEN Skipped ELSE r

DirectParse(text) == CatchAndLog(TryParse(jsonStringOf(cleanedTextOf(text))))
FixedParse(text) == CatchAndLog(TryParse(fixedJsonOf(jsonStringOf(cleanedTextOf(text)))))

\* What a call of the parser does: strategy names the return statement
\* taken, "thrown" an exception that leaves the function.
Result(strategy, val) == [strategy |-> strategy, val |-> val]
Thrown == Result("thrown", <<>>)

parseGeminiJSON(text) ==
    LET direct == DirectParse(text)
        fixed == FixedParse(text)
        manualParsed == manuallyParseTestCases(text)
    IN IF NoArrayBoundaries(cleanedTextOf(text)) THEN Result("fallback", getFallbackTestCases)
       ELSE IF direct.status = "threw" THEN Thrown
       ELSE IF direct.status = "returned" THEN Result("direct", direct.val)
       ELSE IF fixed.status = "threw" THEN Thrown
       ELSE IF fixed.status = "returned" THEN Result("fixed", fixed.val)
       ELSE IF Len(manualParsed) > 0 THEN Result("manual", manualParsed)
       ELSE Result("fallback", getFallbackTestCases)

parseTestScenariosJSON(text) ==
    LET cleanedText == cleanedTextOf(text)
        direct == CatchAndLog(TryParseScenarios(jsonStringOf(cleanedText)))
    IN IF NoArrayBoundaries(cleanedText) THEN Result("fallback", getFallbackTestScenarios)
       ELSE IF direct.status = "threw" THEN Thrown
       ELSE IF direct.status = "returned" THEN Result("direct", direct.val)
       ELSE Result("fallback", getFallbackTestScenarios)

(***************************************************************************)
(*                        The texts given to the parsers                   *)
(***************************************************************************)

MaxElems == 2
MaxCalls == 2

Str(s) == <<QUOTE>> \o s \o <<QUOTE>>
Member(key, value) == Str(<<key>>) \o <<COLON>> \o value
SpacedMember(key, value) == Str(<<key>>) \o <<COLON, SP>> \o value
Obj(members) == <<LBRACE>> \o Join(members, <<COMMA>>) \o <<RBRACE>>
SpacedObj(members) == <<LBRACE>> \o Join(members, <<COMMA, SP>>) \o <<RBRACE>>

\* {"id": "PC_1", "summary": "Verify login", "testSteps": "Open page"}
ElemA ==
    SpacedObj(<<SpacedMember("id", Str(<<"PC_", "1">>)), SpacedMember("summary", Str(SumA)),
                SpacedMember("testSteps", Str(StepA))>>)

\* {"id":"PC_2","summary":"Check upload","steps":["Open page","Click submit"]}
ElemB ==
    Obj(<<Member("id", Str(<<"PC_", "2">>)), Member("summary", Str(SumB)),
          Member("steps", <<LBRACK>> \o Str(StepA) \o <<COMMA>> \o Str(StepB) \o <<RBRACK>>)>>)

\* {"title":"Upload title","summary":5}
ElemNum == Obj(<<Member("title", Str(TitleA)), Member("summary", <<"5">>)>>)

ElemNull == <<"null">>

Elems == {ElemA, ElemB, ElemNum, ElemNull}

ElemLists == UNION {[1..n -> Elems] : n \in 0..MaxElems}

Layouts == {"compact", "multiline"}
Brackets == {"both", "none", "truncated"}
Wrappers == {"bare", "fenced"}

\* The array as the model writes it: on one line or one element per line,
\* with or without a comma after the last element, whole, without its
\* brackets, or cut before the closing bracket.
ArrayText(elems, layout, trailing, brackets) ==
    LET sep == IF layout = "multiline" THEN <<COMMA, NL>> ELSE <<COMMA>>
        open == IF layout = "multiline" THEN <<LBRACK, NL>> ELSE <<LBRACK>>
        close == IF layout = "multiline" THEN <<NL, RBRACK>> ELSE <<RBRACK>>
        body == Join(elems, sep) \o (IF trailing THEN <<COMMA>> ELSE <<>>)
    IN CASE brackets = "both" -> open \o body \o close
         [] brackets = "none" -> body
         [] brackets = "truncated" -> open \o body

\* Sure! <fence>json\n ... \n<fence>
Wrapped(t, wrapper) ==
    IF wrapper = "fenced" THEN <<"Sure", "!", SP, FENCE, "json", NL>> \o t \o <<NL, FENCE>>
    ELSE t

Refusal == <<"I", SP, "cannot", SP, "help", SP, "with", SP, "that", SP, "request", ".">>
Reversed == <<RBRACK, SP, LBRACK>>

\* [{"id":"PC_1","summary":"Verify login","testSteps":"Open page<newline>Click submit"}]
RawNewlineText ==
    <<LBRACK>>
    \o Obj(<<Member("id", Str(<<"PC_", "1">>)), Member("summary", Str(SumA)),
             Member("testSteps", Str(StepA \o <<NL>> \o StepB))>>)
    \o <<RBRACK>>

\* Sure! <fence>json\n[{"id": "PC_1", "summary": "Verify login", ...}]\n<fence>
FencedOneRecord == Wrapped(ArrayText(<<ElemA>>, "compact", FALSE, "both"), "fenced")

SpecialTexts == {<<>>, Refusal, Reversed, RawNewlineText}

Texts ==
    SpecialTexts
    \cup {Wrapped(ArrayText(e, l, c, b), w) :
              e \in ElemLists, l \in Layouts, c \in BOOLEAN, b \in Brackets, w \in Wrappers}

\* The texts of a later call.
RepeatTexts == {<<>>, Refusal, FencedOneRecord}

ParseInit ==
    /\ rawText \in Texts
    /\ parsedCases = NoResult
    /\ parsedScenarios = NoResult
    /\ prevText = <<>>
    /\ prevCases = NoResult
    /\ prevScenarios = NoResult
    /\ callNo = 1
    /\ ppc = "start"
    \* callGeminiWithRetry is not running
    /\ maxRetries = 0
    /\ baseDelay = 0
    /\ attempt = 0
    /\ lastError = Undefined
    /\ pc = "idle"
    /\ calls = 0
    /\ errors = <<>>
    /\ delays = <<>>
    /\ successAt = 0
    /\ returned = 0
    /\ thrown = Undefined
    \* validateAndCleanTestCasesEnhanced is not running
    /\ testCases = <<>>
    /\ existingTestCases = <<>>
    /\ cleaned = <<>>
    /\ uniqueCases = <<>>
    /\ seenSummaries = {}
    /\ seenStepsSignatures = {}
    /\ seenPurposes = {}
    /\ duplicateCount = 0
    /\ idx = 0
    /\ reasons = <<>>
    /\ validatedCases = <<>>
    /\ warnings = {}
    /\ vpc = "idle"
    \* no other filter run, invocation or request is in progress
    /\ xs = <<>>
    /\ ys = <<>>
    /\ outX = <<>>
    /\ outY = <<>>
    /\ outXY = <<>>
    /\ hpc = "idle"
    /\ testCases2 = <<>>
    /\ existingTestCases2 = <<>>
    /\ cleaned2 = <<>>
    /\ uniqueCases2 = <<>>
    /\ seenSummaries2 = {}
    /\ seenStepsSignatures2 = {}
    /\ seenPurposes2 = {}
    /\ idx2 = 0
    /\ validatedCases2 = <<>>
    /\ vpc2 = "idle"
    /\ generating = "none"
    /\ completed = {}
    /\ response = NoResponse
    \* no OAuth handler, middleware or sheet writer is running
    /\ userTokens = <<>>
    /\ credentials = "none"
    /\ reqs = <<>>
    /\ apiCalls = {}
    /\ cookie = "none"
    /\ users = {}
    /\ decoded = "none"
    /\ reqUser = "none"
    /\ statusSent = 0
    /\ nextCalled = FALSE
    /\ mpc = "idle"
    /\ sheet = <<>>
    /\ appends = <<>>
    /\ arrangement = <<>>

\* parseGeminiJSON(text)
ParseCases ==
    /\ ppc = "start"
    /\ parsedCases' = parseGeminiJSON(rawText)
    /\ ppc' = "cases"
    /\ UNCHANGED <<rawText, parsedScenarios, prevText, prevCases, prevScenarios, callNo>>
    /\ UNCHANGED <<rvars, nvars, hvars, ivars, evars, avars, mvars, svars>>

\* parseTestScenariosJSON(text)
ParseScenarios ==
    /\ ppc = "cases"
    /\ parsedScenarios' = parseTestScenariosJSON(rawText)
    /\ ppc' = "done"
    /\ UNCHANGED <<rawText, parsedCases, prevText, prevCases, prevScenarios, callNo>>
    /\ UNCHANGED <<rvars, nvars, hvars, ivars, evars, avars, mvars, svars>>

\* The next response of the model arrives.
NextCall ==
    /\ ppc = "done"
    /\ callNo < MaxCalls
    /\ \E t \in RepeatTexts : rawText' = t
    /\ prevText' = rawText
    /\ prevCases' = parsedCases
    /\ prevScenarios' = parsedScenarios
    /\ parsedCases' = NoResult
    /\ parsedScenarios' = NoResult
    /\ callNo' = callNo + 1
    /\ ppc' = "start"
    /\ UNCHANGED <<rvars, nvars, hvars, ivars, evars, avars, mvars, svars>>

ParseNext == ParseCases \/ ParseScenarios \/ NextCall

ParseSpec == ParseInit /\ [][ParseNext]_vars

(***************************************************************************)
(*   parseGeminiJSONEnhanced: parseGeminiJSON, then the enhanced filter    *)
(***************************************************************************)

\* A parsed record as the filter reads it: a property the record does not
\* have reads as undefined.
AsCandidate(rec) == [f \in CandFields |-> IF f \in DOMAIN rec THEN rec[f] ELSE JsUndefined]

\* The model outputs of the pipeline: the special texts and the fenced,
\* compact arrays with and without their brackets.
PipelineTexts ==
    SpecialTexts
    \cup {Wrapped(ArrayText(e, "compact", FALSE, b), "fenced") :
              e \in ElemLists, b \in Brackets}

PipelineInit ==
    /\ rawText \in PipelineTexts
    /\ existingTestCases \in ExistingChoices
    /\ parsedCases = NoResult
    /\ parsedScenarios = NoResult
    /\ prevText = <<>>
    /\ prevCases = NoResult
    /\ prevScenarios = NoResult
    /\ callNo = 1
    /\ ppc = "start"
    /\ testCases = <<>>
    /\ cleaned = <<>>
    /\ uniqueCases = <<>>
    /\ seenSummaries = {}
    /\ seenStepsSignatures = {}
    /\ seenPurposes = {}
    /\ duplicateCount = 0
    /\ idx = 0
    /\ reasons = <<>>
    /\ validatedCases = <<>>
    /\ warnings = {}
    /\ vpc = "idle"
    \* callGeminiWithRetry has returned the text; nothing else is running
    /\ maxRetries = 0
    /\ baseDelay = 0
    /\ attempt = 0
    /\ lastError = Undefined
    /\ pc = "idle"
    /\ calls = 0
    /\ errors = <<>>
    /\ delays = <<>>
    /\ successAt = 0
    /\ returned = 0
    /\ thrown = Undefined
    /\ generating = "none"
    /\ completed = {}
    /\ response = NoResponse
    \* no OAuth handler, middleware or sheet writer is running
    /\ userTokens = <<>>
    /\ credentials = "none"
    /\ reqs = <<>>
    /\ apiCalls = {}
    /\ cookie = "none"
    /\ users = {}
    /\ decoded = "none"
    /\ reqUser = "none"
    /\ statusSent = 0
    /\ nextCalled = FALSE
    /\ mpc = "idle"
    /\ sheet = <<>>
    /\ appends = <<>>
    /\ arrangement = <<>>
    /\ xs = <<>>
    /\ ys = <<>>
    /\ outX = <<>>
    /\ outY = <<>>
    /\ outXY = <<>>
    /\ hpc = "idle"
    /\ testCases2 = <<>>
    /\ existingTestCases2 = <<>>
    /\ cleaned2 = <<>>
    /\ uniqueCases2 = <<>>
    /\ seenSummaries2 = {}
    /\ seenStepsSignatures2 = {}
    /\ seenPurposes2 = {}
    /\ idx2 = 0
    /\ validatedCases2 = <<>>
    /\ vpc2 = "idle"

\* const parsed = parseGeminiJSON(text), handed to
\* performPostGenerationValidation(parsed, existingTestCases).
ParseEnhanced ==
    /\ ppc = "start"
    /\ vpc = "idle"
    /\ parsedCases' = parseGeminiJSON(rawText)
    /\ ppc' = "cases"
    /\ testCases' = [i \in 1..Len(parsedCases'.val) |-> AsCandidate(parsedCases'.val[i])]
    /\ vpc' = "start"
    /\ UNCHANGED <<rawText, parsedScenarios, prevText, prevCases, prevScenarios, callNo>>
    /\ UNCHANGED <<existingTestCases, cleaned, uniqueCases, seenSummaries,
                   seenStepsSignatures, seenPurposes, duplicateCount, idx, reasons,
                   validatedCases, warnings>>
    /\ UNCHANGED <<rvars, hvars, ivars, evars, avars, mvars, svars>>

PipelineNext ==
    \/ ParseEnhanced
    \/ ValidateStart
    \/ RejectCase
    \/ AcceptCase
    \/ ValidateReturn
    \/ PostValidation

PipelineSpec == PipelineInit /\ [][PipelineNext]_vars

\* What each strategy yields on its own for a text.
HasBoundaries(t) == ~NoArrayBoundaries(cleanedTextOf(t))

StrictYield(t) ==
    IF HasBoundaries(t) /\ TryParse(jsonStringOf(cleanedTextOf(t))).status = "returned"
    THEN TryParse(jsonStringOf(cleanedTextOf(t))).val
    ELSE <<>>

RepairedYield(t) ==
    IF HasBoundaries(t)
       /\ TryParse(fixedJsonOf(jsonStringOf(cleanedTextOf(t)))).status = "returned"
    THEN TryParse(fixedJsonOf(jsonStringOf(cleanedTextOf(t)))).val
    ELSE <<>>

ManualYield(t) == manuallyParseTestCases(t)

FirstYield(t) ==
    IF StrictYield(t) # <<>> THEN StrictYield(t)
    ELSE IF RepairedYield(t) # <<>> THEN RepairedYield(t)
    ELSE IF ManualYield(t) # <<>> THEN ManualYield(t)
    ELSE getFallbackTestCases

CasesParsed == ppc \in {"cases", "done"}
ScenariosParsed == ppc = "done"

\* C5: parseGeminiJSON and parseTestScenariosJSON never throw and never
\* return an empty sequence, whatever the text.
C5_NeverThrowsNeverEmpty ==
    /\ CasesParsed => parsedCases.strategy # "thrown" /\ Len(parsedCases.val) >= 1
    /\ ScenariosParsed =>
           parsedScenarios.strategy # "thrown" /\ Len(parsedScenarios.val) >= 1

\* The text is [] : both parsers return their placeholder records.
C5_Witness ==
    /\ ScenariosParsed
    /\ rawText = <<LBRACK, RBRACK>>
    /\ parsedCases.strategy = "fallback" /\ Len(parsedCases.val) = FallbackCount
    /\ parsedScenarios.strategy = "fallback"
    /\ Len(parsedScenarios.val) = ScenarioFallbackCount

\* C6: parseGeminiJSON returns what the first of strict parse, repaired
\* parse, manual extraction and placeholders yields, a later strategy only
\* when every earlier one yields nothing; for prose, a json fence and a valid
\* array of one record PC_1 the result is that one record.
C6_FirstStrategyWins ==
    CasesParsed =>
        /\ parsedCases.val = FirstYield(rawText)
        /\ rawText = FencedOneRecord =>
               /\ Len(parsedCases.val) = 1
               /\ parsedCases.val[1].id = JsString(<<"PC_", "1">>)

\* The bracketed substring of t is an array of well-formed records that is
\* valid JSON once the commas before closing brackets are removed, and only
\* then.
TrailingCommasOnly(t) ==
    /\ HasBoundaries(t)
    /\ ~JSONParse(jsonStringOf(cleanedTextOf(t))).ok
    /\ LET p == JSONParse(RemoveTrailingCommas(jsonStringOf(cleanedTextOf(t))))
       IN /\ p.ok
          /\ IsNonEmptyArray(p.v)
          /\ \A i \in 1..Len(p.v.items) : p.v.items[i].t = "object"
          /\ validateAndCleanTestCases(ElementsOf(p.v)).status = "returned"

RecordsWithoutTrailingCommas(t) ==
    validateAndCleanTestCases(
        ElementsOf(JSONParse(RemoveTrailingCommas(jsonStringOf(cleanedTextOf(t)))).v)).val

\* C7: when the array is valid except for trailing commas, the repaired
\* parse succeeds and the records of the array are returned.
C7_TrailingCommasRepaired ==
    CasesParsed /\ TrailingCommasOnly(rawText) =>
        /\ parsedCases.strategy = "fixed"
        /\ parsedCases.val = RecordsWithoutTrailingCommas(rawText)

\* No bracket and no identifier pattern in the text.
Unparseable(t) ==
    /\ IndexOf(t, LBRACK) = 0
    /\ IndexOf(t, RBRACK) = 0
    /\ IdMatches(t) = <<>>

\* C8: for an unparseable text parseGeminiJSON returns the 20 placeholder
\* records PC_1..PC_20 in order and parseTestScenariosJSON the 10 records
\* TS_1..TS_10; two calls on unparseable texts return equal sequences.
C8_PlaceholdersFixed ==
    /\ CasesParsed /\ Unparseable(rawText) =>
           /\ Len(parsedCases.val) = FallbackCount
           /\ \A i \in 1..Len(parsedCases.val) :
                  parsedCases.val[i].id = JsString(<<"PC_", ToString(i)>>)
    /\ ScenariosParsed /\ Unparseable(rawText) =>
           /\ Len(parsedScenarios.val) = ScenarioFallbackCount
           /\ \A i \in 1..Len(parsedScenarios.val) :
                  parsedScenarios.val[i].id = JsString(<<"TS_", ToString(i)>>)
    /\ ScenariosParsed /\ callNo > 1 /\ Unparseable(rawText) /\ Unparseable(prevText) =>
           /\ parsedCases.val = prevCases.val
           /\ parsedScenarios.val = prevScenarios.val

\* Two calls, on the refusal sentence and on the empty text.
C8_Witness ==
    /\ ScenariosParsed
    /\ callNo = 2
    /\ prevText = Refusal
    /\ rawText = <<>>
    /\ parsedCases.val = prevCases.val
    /\ Len(parsedCases.val) = FallbackCount
    /\ parsedCases.val[FallbackCount].id = JsString(<<"PC_", ToString(FallbackCount)>>)
    /\ parsedScenarios.val = prevScenarios.val
    /\ Len(parsedScenarios.val) = ScenarioFallbackCount

\* C18: when the fence-stripped text has no '[' or no ']', or its last ']'
\* does not come after its first '[', parseGeminiJSON skips both JSON parses
\* and goes to the manual field extraction: it returns the manually extracted
\* records, and the placeholders only if manual extraction yields nothing.
C18_NoBracketsGoesToManual ==
    (CasesParsed /\ ~HasBoundaries(rawText)) =>
        parsedCases.val = IF ManualYield(rawText) # <<>>
                          THEN ManualYield(rawText)
                          ELSE getFallbackTestCases

\* ======================================================================
\* oauthController: the handlers that load a user's stored tokens into the
\* one module-level oauth2Client.  Each await is a point where the handler
\* of another request can run.
\* ======================================================================

Users == {"A", "B"}

Requests == {"r1", "r2"}

\* generateTestCasesWithOptions (through getAuthenticatedSheetsClient),
\* getConnectionStatus, getAvailableSheets, removeCredentials
Handlers == {"generate", "status", "list", "disconnect"}

\* What UserToken.findOne gives when there is no record; also the
\* credentials of a client on which setCredentials was never called.
NoToken == [owner |-> "none", refreshToken |-> FALSE]

\* The records a user can have stored: the refresh token may be absent.
TokenRecords(u) == {[owner |-> u, refreshToken |-> b] : b \in BOOLEAN}

NoAnswer == [code |-> 0, body |-> ""]

Answer(code, body) == [code |-> code, body |-> body]

NewRequest(h, u) ==
    [handler |-> h, userId |-> u, pc |-> "start", userToken |-> NoToken,
     revoke |-> "none", deleteCalled |-> FALSE, answer |-> NoAnswer]

\* What each handler answers when its code throws outside an inner try.
CatchAnswer(h) ==
    CASE h = "status" -> Answer(200, "connected: false")
      [] h = "disconnect" -> Answer(500, "success: false")
      [] OTHER -> Answer(500, "error")

\* What each handler does when findOne returned null.
NotConnectedAnswer(h) ==
    CASE h = "status" -> Answer(200, "connected: false")
      [] h = "list" -> Answer(401, "Google Sheets not connected")
      [] h = "disconnect" -> Answer(200, "success: false")
      [] OTHER -> CatchAnswer(h)

AuthInit ==
    /\ userTokens \in {f \in [Users -> {NoToken} \cup UNION {TokenRecords(u) : u \in Users}] :
                          \A u \in Users : f[u] \in {NoToken} \cup TokenRecords(u)}
    /\ credentials = NoToken
    /\ reqs \in [Requests -> {NewRequest(h, u) : h \in Handlers, u \in Users}]
    /\ apiCalls = {}
    \* callGeminiWithRetry and its caller are not running
    /\ maxRetries = 0
    /\ baseDelay = 0
    /\ attempt = 0
    /\ lastError = Undefined
    /\ pc = "idle"
    /\ calls = 0
    /\ errors = <<>>
    /\ delays = <<>>
    /\ successAt = 0
    /\ returned = 0
    /\ thrown = Undefined
    /\ generating = "none"
    /\ completed = {}
    /\ response = NoResponse
    \* the filter and the parsers are not running
    /\ testCases = <<>>
    /\ existingTestCases = <<>>
    /\ cleaned = <<>>
    /\ uniqueCases = <<>>
    /\ seenSummaries = {}
    /\ seenStepsSignatures = {}
    /\ seenPurposes = {}
    /\ duplicateCount = 0
    /\ idx = 0
    /\ reasons = <<>>
    /\ validatedCases = <<>>
    /\ warnings = {}
    /\ vpc = "idle"
    /\ rawText = <<>>
    /\ parsedCases = NoResult
    /\ parsedScenarios = NoResult
    /\ prevText = <<>>
    /\ prevCases = NoResult
    /\ prevScenarios = NoResult
    /\ callNo = 0
    /\ ppc = "idle"
    /\ xs = <<>>
    /\ ys = <<>>
    /\ outX = <<>>
    /\ outY = <<>>
    /\ outXY = <<>>
    /\ hpc = "idle"
    /\ testCases2 = <<>>
    /\ existingTestCases2 = <<>>
    /\ cleaned2 = <<>>
    /\ uniqueCases2 = <<>>
    /\ seenSummaries2 = {}
    /\ seenStepsSignatures2 = {}
    /\ seenPurposes2 = {}
    /\ idx2 = 0
    /\ validatedCases2 = <<>>
    /\ vpc2 = "idle"
    \* ProtectRoute is not running
    /\ cookie = "none"
    /\ users = {}
    /\ decoded = "none"
    /\ reqUser = "none"
    /\ statusSent = 0
    /\ nextCalled = FALSE
    /\ mpc = "idle"
    \* no sheet writer is running
    /\ sheet = <<>>
    /\ appends = <<>>
    /\ arrangement = <<>>

\* await UserToken.findOne({ userId }): the read of the collection.
FindOne(r) ==
    /\ reqs[r].pc = "start"
    /\ reqs' = [reqs EXCEPT ![r].userToken = userTokens[reqs[r].userId],
                            ![r].pc = "found"]
    /\ UNCHANGED <<userTokens, credentials, apiCalls>>
    /\ UNCHANGED <<rvars, nvars, pvars, hvars, ivars, evars, mvars, svars>>

\* The read rejects (the database is unreachable): the handler's catch runs.
FindOneFails(r) ==
    /\ reqs[r].pc = "start"
    /\ reqs' = [reqs EXCEPT ![r].answer = CatchAnswer(reqs[r].handler),
                            ![r].pc = "done"]
    /\ UNCHANGED <<userTokens, credentials, apiCalls>>
    /\ UNCHANGED <<rvars, nvars, pvars, hvars, ivars, evars, mvars, svars>>

\* getAuthenticatedSheetsClient after its await: throw when there is no
\* record, else setCredentials on the shared client and return a Sheets
\* client whose auth IS that shared client.
GetClient(r) ==
    /\ reqs[r].handler = "generate"
    /\ reqs[r].pc = "found"
    /\ IF reqs[r].userToken = NoToken
       THEN /\ reqs' = [reqs EXCEPT ![r].answer = NotConnectedAnswer("generate"),
                                    ![r].pc = "done"]
            /\ UNCHANGED credentials
       ELSE /\ credentials' = reqs[r].userToken
            /\ reqs' = [reqs EXCEPT ![r].pc = "client"]
    /\ UNCHANGED <<userTokens, apiCalls>>
    /\ UNCHANGED <<rvars, nvars, pvars, hvars, ivars, evars, mvars, svars>>

\* A later call through the returned client (sheets.spreadsheets.values.get
\* in the controller): it is sent with whatever the shared client holds by then.
SheetsCall(r) ==
    /\ reqs[r].handler = "generate"
    /\ reqs[r].pc = "client"
    /\ apiCalls' = apiCalls \cup {[req |-> r, userId |-> reqs[r].userId,
                                   sentWith |-> credentials]}
    /\ reqs' = [reqs EXCEPT ![r].answer = Answer(200, "generated"),
                            ![r].pc = "done"]
    /\ UNCHANGED <<userTokens, credentials>>
    /\ UNCHANGED <<rvars, nvars, pvars, hvars, ivars, evars, mvars, svars>>

\* getConnectionStatus after findOne: answer connected: false, or
\* setCredentials and start drive.files.list.
StatusFound(r) ==
    /\ reqs[r].handler = "status"
    /\ reqs[r].pc = "found"
    /\ IF reqs[r].userToken = NoToken
       THEN /\ reqs' = [reqs EXCEPT ![r].answer = NotConnectedAnswer("status"),
                                    ![r].pc = "done"]
            /\ UNCHANGED credentials
       ELSE /\ credentials' = reqs[r].userToken
            /\ reqs' = [reqs EXCEPT ![r].pc = "listing"]
    /\ UNCHANGED <<userTokens, apiCalls>>
    /\ UNCHANGED <<rvars, nvars, pvars, hvars, ivars, evars, mvars, svars>>

\* drive.files.list settles: it resolves, rejects with invalid_grant (the
\* catch then deletes the record) or rejects with another error.
DriveListSettles(r) ==
    /\ reqs[r].handler = "status"
    /\ reqs[r].pc = "listing"
    /\ \E outcome \in {"ok", "invalid_grant", "error"} :
          reqs' = CASE outcome = "ok" ->
                         [reqs EXCEPT ![r].answer = Answer(200, "connected: true"),
                                      ![r].pc = "done"]
                    [] outcome = "invalid_grant" ->
                         [reqs EXCEPT ![r].pc = "purging"]
                    [] OTHER ->
                         [reqs EXCEPT ![r].answer = CatchAnswer("status"),
                                      ![r].pc = "done"]
    /\ UNCHANGED <<userTokens, credentials, apiCalls>>
    /\ UNCHANGED <<rvars, nvars, pvars, hvars, ivars, evars, mvars, svars>>

\* The findOneAndDelete of getConnectionStatus's catch, then its answer.
StatusPurge(r) ==
    /\ reqs[r].handler = "status"
    /\ reqs[r].pc = "purging"
    /\ userTokens' = [userTokens EXCEPT ![reqs[r].userId] = NoToken]
    /\ reqs' = [reqs EXCEPT ![r].answer = CatchAnswer("status"),
                            ![r].pc = "done"]
    /\ UNCHANGED <<credentials, apiCalls>>
    /\ UNCHANGED <<rvars, nvars, pvars, hvars, ivars, evars, mvars, svars>>

\* getAvailableSheets after findOne: 401, or setCredentials and start
\* sheets.spreadsheets.get.
SheetsFound(r) ==
    /\ reqs[r].handler = "list"
    /\ reqs[r].pc = "found"
    /\ IF reqs[r].userToken = NoToken
       THEN /\ reqs' = [reqs EXCEPT ![r].answer = NotConnectedAnswer("list"),
                                    ![r].pc = "done"]
            /\ UNCHANGED credentials
       ELSE /\ credentials' = reqs[r].userToken
            /\ reqs' = [reqs EXCEPT ![r].pc = "getting"]
    /\ UNCHANGED <<userTokens, apiCalls>>
    /\ UNCHANGED <<rvars, nvars, pvars, hvars, ivars, evars, mvars, svars>>

\* sheets.spreadsheets.get of getAvailableSheets settles.
SheetsGetSettles(r) ==
    /\ reqs[r].handler = "list"
    /\ reqs[r].pc = "getting"
    /\ \E ok \in BOOLEAN :
          reqs' = [reqs EXCEPT ![r].answer = IF ok THEN Answer(200, "sheets")
                                                  ELSE CatchAnswer("list"),
                               ![r].pc = "done"]
    /\ UNCHANGED <<userTokens, credentials, apiCalls>>
    /\ UNCHANGED <<rvars, nvars, pvars, hvars, ivars, evars, mvars, svars>>

\* removeCredentials after findOne: answer success: false when there is no
\* record; else setCredentials, and revokeToken when the record has a
\* refresh token, else go on to findOneAndDelete.
RemoveFound(r) ==
    /\ reqs[r].handler = "disconnect"
    /\ reqs[r].pc = "found"
    /\ IF reqs[r].userToken = NoToken
       THEN /\ reqs' = [reqs EXCEPT ![r].answer = NotConnectedAnswer("disconnect"),
                                    ![r].pc = "done"]
            /\ UNCHANGED credentials
       ELSE /\ credentials' = reqs[r].userToken
            /\ reqs' = IF reqs[r].userToken.refreshToken
                       THEN [reqs EXCEPT ![r].revoke = "called",
                                         ![r].pc = "revoking"]
                       ELSE [reqs EXCEPT ![r].deleteCalled = TRUE,
                                         ![r].pc = "deleting"]
    /\ UNCHANGED <<userTokens, apiCalls>>
    /\ UNCHANGED <<rvars, nvars, pvars, hvars, ivars, evars, mvars, svars>>

\* A variant of RevokeSettles in which a revocation that threw ends the
\* removal without the delete.
RevokeSettlesSkippingDelete(r) ==
    /\ reqs[r].handler = "disconnect"
    /\ reqs[r].pc = "revoking"
    /\ \E outcome \in {"ok", "threw"} :
          reqs' = IF outcome = "threw"
                  THEN [reqs EXCEPT ![r].revoke = outcome, ![r].pc = "deleted"]
                  ELSE [reqs EXCEPT ![r].revoke = outcome,
                                    ![r].deleteCalled = TRUE,
                                    ![r].pc = "deleting"]
    /\ UNCHANGED <<userTokens, credentials, apiCalls>>
    /\ UNCHANGED <<rvars, nvars, pvars, hvars, ivars, evars, mvars, svars>>

\* oauth2Client.revokeToken settles: it resolves, or it rejects and the
\* inner catch only warns; either way findOneAndDelete is called next.
RevokeSettles(r) ==
    /\ reqs[r].handler = "disconnect"
    /\ reqs[r].pc = "revoking"
    /\ \E outcome \in {"ok", "threw"} :
          reqs' = [reqs EXCEPT ![r].revoke = outcome,
                               ![r].deleteCalled = TRUE,
                               ![r].pc = "deleting"]
    /\ UNCHANGED <<userTokens, credentials, apiCalls>>
    /\ UNCHANGED <<rvars, nvars, pvars, hvars, ivars, evars, mvars, svars>>

\* UserToken.findOneAndDelete({ userId }) takes effect on the collection.
FindOneAndDelete(r) ==
    /\ reqs[r].handler = "disconnect"
    /\ reqs[r].pc = "deleting"
    /\ userTokens' = [userTokens EXCEPT ![reqs[r].userId] = NoToken]
    /\ reqs' = [reqs EXCEPT ![r].pc = "deleted"]
    /\ UNCHANGED <<credentials, apiCalls>>
    /\ UNCHANGED <<rvars, nvars, pvars, hvars, ivars, evars, mvars, svars>>

\* findOneAndDelete rejects: the outer catch answers 500.
DeleteFails(r) ==
    /\ reqs[r].handler = "disconnect"
    /\ reqs[r].pc = "deleting"
    /\ reqs' = [reqs EXCEPT ![r].answer = CatchAnswer("disconnect"),
                            ![r].pc = "done"]
    /\ UNCHANGED <<userTokens, credentials, apiCalls>>
    /\ UNCHANGED <<rvars, nvars, pvars, hvars, ivars, evars, mvars, svars>>

\* res.json({ success: true, ... }) after the delete resolved.
RemoveRespond(r) ==
    /\ reqs[r].handler = "disconnect"
    /\ reqs[r].pc = "deleted"
    /\ reqs' = [reqs EXCEPT ![r].answer = Answer(200, "success: true"),
                            ![r].pc = "done"]
    /\ UNCHANGED <<userTokens, credentials, apiCalls>>
    /\ UNCHANGED <<rvars, nvars, pvars, hvars, ivars, evars, mvars, svars>>

AuthNext ==
    \E r \in Requests :
        \/ FindOne(r)
        \/ FindOneFails(r)
        \/ GetClient(r)
        \/ SheetsCall(r)
        \/ StatusFound(r)
        \/ DriveListSettles(r)
        \/ StatusPurge(r)
        \/ SheetsFound(r)
        \/ SheetsGetSettles(r)
        \/ RemoveFound(r)
        \/ RevokeSettles(r)
        \/ FindOneAndDelete(r)
        \/ DeleteFails(r)
        \/ RemoveRespond(r)

AuthSpec == AuthInit /\ [][AuthNext]_vars

\* C25: every Sheets API call made through a client that
\* getAuthenticatedSheetsClient returned for a user is sent with that
\* user's stored tokens, whatever other requests did in between.
C25_ClientKeepsItsUser ==
    \A c \in apiCalls : c.sentWith \in TokenRecords(c.userId)

\* The requests of kind "disconnect" and the user each is for.
RemovalOf(r) == reqs[r].handler = "disconnect"

\* C30: removeCredentials answers success: true only with the user's record
\* gone, whether the revocation resolved, threw or was not needed; when
\* findOne found no record it answers success: false without calling
\* revoke or delete; no step of it touches another user's record.
C30_RemoveCredentials ==
    [][\A r \in Requests : (RemovalOf(r) /\ reqs'[r] # reqs[r]) =>
          /\ reqs'[r].answer.body = "success: true" =>
                userTokens'[reqs[r].userId] = NoToken
          /\ (reqs[r].pc = "found" /\ reqs[r].userToken = NoToken) =>
                /\ reqs'[r].answer.body = "success: false"
                /\ reqs'[r].pc = "done"
                /\ reqs'[r].revoke = "none"
                /\ ~reqs'[r].deleteCalled
                /\ userTokens' = userTokens
          /\ \A u \in Users \ {reqs[r].userId} : userTokens'[u] = userTokens[u]]_vars

\* One removal answered success: true after its revocation threw, the other
\* found no record and answered success: false, and the other user's record
\* is still stored.
C30_Witness ==
    /\ RemovalOf("r1") /\ RemovalOf("r2")
    /\ reqs["r1"].userId = "A" /\ reqs["r2"].userId = "B"
    /\ reqs["r1"].revoke = "threw"
    /\ reqs["r1"].answer = Answer(200, "success: true")
    /\ userTokens["A"] = NoToken
    /\ reqs["r2"].answer = Answer(200, "success: false")
    /\ ~reqs["r2"].deleteCalled

\* ======================================================================
\* The sheet writers.  The sheet is columns A:J as sheets.spreadsheets
\* .values.get returns them: a sequence of rows of ten cells, an empty cell
\* being the empty string.
\* ======================================================================

\* Largest number of data rows the sheet starts with.
MaxSheetRows == 2

\* Largest number of test cases one call appends.
MaxAppend == 2

HeaderRow ==
    <<"Test Case ID", "Module", "Submodule", "Summary", "Test Steps",
      "Expected Results", "Actual Result", "Test Case Type", "Environment",
      "Status">>

\* a || b on strings: the empty (or missing) value gives the default.
OrDefault(v, default) == IF v = "" THEN default ELSE v

SheetRow(id, summary, type, rowStatus) ==
    <<id, "Login", "", summary, "Enter the data", "It is accepted", "",
      type, "Test", rowStatus>>

\* The data rows a sheet can hold before a writer runs: two ordinary rows,
\* a row without an id, a row whose type and status cells are empty.
StoredRows ==
    <<SheetRow("TC_1", "Verify login", "Positive", "Not Tested"),
      SheetRow("TC_2", "Verify logout", "Negative", "Passed"),
      SheetRow("", "Unnumbered check", "Positive", "Not Tested"),
      SheetRow("TC_3", "Verify reset", "", "")>>

SeqsUpTo(S, n) == UNION {[1..k -> S] : k \in 0..n}

\* The sheets a writer can find: empty, or the header and some data rows.
Sheets == {<<>>} \cup {<<HeaderRow>> \o d : d \in SeqsUpTo(Range(StoredRows), MaxSheetRows)}

\* ---- appendTestCasesToExistingSheet, two calls on one sheet ----

Callers == {"c1", "c2"}

\* The validated test case number i of a caller.
NewCase(c, i) ==
    [id |-> IF c = "c1" THEN "TC_10" \o ToString(i) ELSE "TC_20" \o ToString(i),
     module |-> "", submodule |-> "Form", summary |-> "Verify field " \o ToString(i),
     testSteps |-> "Fill the field", expectedResults |-> "It is saved",
     testCaseType |-> IF i = 1 THEN "Negative" ELSE "", environment |-> "",
     status |-> ""]

NewCases(c) == {[i \in 1..k |-> NewCase(c, i)] : k \in 1..MaxAppend}

\* newTestCasesData: the row written for a test case.
AppendedRow(tc, module) ==
    <<OrDefault(tc.id, ""), OrDefault(tc.module, module), OrDefault(tc.submodule, ""),
      OrDefault(tc.summary, ""), OrDefault(tc.testSteps, ""),
      OrDefault(tc.expectedResults, ""), "",
      OrDefault(tc.testCaseType, "Positive"), OrDefault(tc.environment, "Test"),
      OrDefault(tc.status, "Not Tested")>>

EmptyRow == <<"", "", "", "", "", "", "", "", "", "">>

\* values.update at 'sheet'!A<at>: the rows written replace what rows
\* at..at+Len-1 held, the others stay.
WrittenAt(sh, at, rws) ==
    LET last == IF Len(sh) > at + Len(rws) - 1 THEN Len(sh) ELSE at + Len(rws) - 1
    IN  [i \in 1..last |->
            IF i >= at /\ i < at + Len(rws) THEN rws[i - at + 1]
            ELSE IF i <= Len(sh) THEN sh[i] ELSE EmptyRow]

AppendInit ==
    /\ sheet \in Sheets
    /\ appends \in {f \in [Callers -> [pc : {"start"}, nextRow : {0},
                                       testCases : UNION {NewCases(c) : c \in Callers}]] :
                       \A c \in Callers : f[c].testCases \in NewCases(c)}
    /\ arrangement = <<>>
    \* callGeminiWithRetry and its caller are not running
    /\ maxRetries = 0
    /\ baseDelay = 0
    /\ attempt = 0
    /\ lastError = Undefined
    /\ pc = "idle"
    /\ calls = 0
    /\ errors = <<>>
    /\ delays = <<>>
    /\ successAt = 0
    /\ returned = 0
    /\ thrown = Undefined
    /\ generating = "none"
    /\ completed = {}
    /\ response = NoResponse
    \* the filter and the parsers are not running
    /\ testCases = <<>>
    /\ existingTestCases = <<>>
    /\ cleaned = <<>>
    /\ uniqueCases = <<>>
    /\ seenSummaries = {}
    /\ seenStepsSignatures = {}
    /\ seenPurposes = {}
    /\ duplicateCount = 0
    /\ idx = 0
    /\ reasons = <<>>
    /\ validatedCases = <<>>
    /\ warnings = {}
    /\ vpc = "idle"
    /\ rawText = <<>>
    /\ parsedCases = NoResult
    /\ parsedScenarios = NoResult
    /\ prevText = <<>>
    /\ prevCases = NoResult
    /\ prevScenarios = NoResult
    /\ callNo = 0
    /\ ppc = "idle"
    /\ xs = <<>>
    /\ ys = <<>>
    /\ outX = <<>>
    /\ outY = <<>>
    /\ outXY = <<>>
    /\ hpc = "idle"
    /\ testCases2 = <<>>
    /\ existingTestCases2 = <<>>
    /\ cleaned2 = <<>>
    /\ uniqueCases2 = <<>>
    /\ seenSummaries2 = {}
    /\ seenStepsSignatures2 = {}
    /\ seenPurposes2 = {}
    /\ idx2 = 0
    /\ validatedCases2 = <<>>
    /\ vpc2 = "idle"
    \* no OAuth handler is running
    /\ userTokens = <<>>
    /\ credentials = "none"
    /\ reqs = <<>>
    /\ apiCalls = {}
    \* ProtectRoute is not running
    /\ cookie = "none"
    /\ users = {}
    /\ decoded = "none"
    /\ reqUser = "none"
    /\ statusSent = 0
    /\ nextCalled = FALSE
    /\ mpc = "idle"

\* values.get of A:J resolves: nextRow is one past the rows it returned.
ReadExistingRows(c) ==
    /\ appends[c].pc = "start"
    /\ appends' = [appends EXCEPT ![c].nextRow = Len(sheet) + 1, ![c].pc = "read"]
    /\ UNCHANGED <<sheet, arrangement>>
    /\ UNCHANGED <<rvars, nvars, pvars, hvars, ivars, evars, avars, mvars>>

\* spreadsheets.get resolves with the sheet's id.
GetSheetId(c) ==
    /\ appends[c].pc = "read"
    /\ appends' = [appends EXCEPT ![c].pc = "located"]
    /\ UNCHANGED <<sheet, arrangement>>
    /\ UNCHANGED <<rvars, nvars, pvars, hvars, ivars, evars, avars, mvars>>

\* values.update writes the call's rows from row nextRow on.
UpdateNewRows(c) ==
    /\ appends[c].pc = "located"
    /\ sheet' = WrittenAt(sheet, appends[c].nextRow,
                          [i \in 1..Len(appends[c].testCases) |->
                              AppendedRow(appends[c].testCases[i], "Profile")])
    /\ appends' = [appends EXCEPT ![c].pc = "written"]
    /\ UNCHANGED arrangement
    /\ UNCHANGED <<rvars, nvars, pvars, hvars, ivars, evars, avars, mvars>>

\* The formatting batchUpdate calls resolve and the call returns true.
FormatNewRows(c) ==
    /\ appends[c].pc = "written"
    /\ appends' = [appends EXCEPT ![c].pc = "returned"]
    /\ UNCHANGED <<sheet, arrangement>>
    /\ UNCHANGED <<rvars, nvars, pvars, hvars, ivars, evars, avars, mvars>>

\* One of the awaited API calls rejects: the catch logs and rethrows.
AppendThrows(c) ==
    /\ appends[c].pc \in {"start", "read", "located", "written"}
    /\ appends' = [appends EXCEPT ![c].pc = "threw"]
    /\ UNCHANGED <<sheet, arrangement>>
    /\ UNCHANGED <<rvars, nvars, pvars, hvars, ivars, evars, avars, mvars>>

AppendNext ==
    \E c \in Callers :
        \/ ReadExistingRows(c)
        \/ GetSheetId(c)
        \/ UpdateNewRows(c)
        \/ FormatNewRows(c)
        \/ AppendThrows(c)

AppendSpec == AppendInit /\ [][AppendNext]_vars

\* The rows a call has written once its values.update resolved.
RowsOf(c) ==
    {AppendedRow(appends[c].testCases[i], "Profile") : i \in 1..Len(appends[c].testCases)}

\* C26: once both concurrent calls have returned, the sheet holds the rows
\* of both.
C26_BothAppendsKept ==
    (\A c \in Callers : appends[c].pc = "returned") =>
        \A c \in Callers : RowsOf(c) \subseteq Range(sheet)

\* ---- processCustomPrompt ----

CaseFields ==
    {"rowIndex", "id", "module", "submodule", "summary", "testSteps",
     "expectedResults", "actualResult", "testCaseType", "environment", "status"}

\* The value of a field that an object does not have.
Absent == "(undefined)"

\* rows.slice(1).map(...): the test case read from data row number i.
CaseOfRow(row, i) ==
    [rowIndex |-> ToString(i + 1),
     id |-> OrDefault(row[1], ""), module |-> OrDefault(row[2], ""),
     submodule |-> OrDefault(row[3], ""), summary |-> OrDefault(row[4], ""),
     testSteps |-> OrDefault(row[5], ""), expectedResults |-> OrDefault(row[6], ""),
     actualResult |-> OrDefault(row[7], ""),
     testCaseType |-> OrDefault(row[8], "Positive"),
     environment |-> OrDefault(row[9], "Test"),
     status |-> OrDefault(row[10], "Not Tested")]

\* The test cases of the rows read: the header is skipped, rows whose id
\* cell is empty are filtered out.
CasesOfRows(rws) ==
    LET all == [i \in 1..(Len(rws) - 1) |-> CaseOfRow(rws[i + 1], i)]
    IN  SelectSeq(all, LAMBDA tc : tc.id # "")

\* The priority a record is sorted by: none of the records has the field,
\* so priorityOrder[undefined] - priorityOrder[undefined] is NaN.
PriorityRank(tc) ==
    IF "priority" \notin DOMAIN tc THEN 0
    ELSE CASE tc.priority = "High" -> 1
           [] tc.priority = "Medium" -> 2
           [] tc.priority = "Low" -> 3
           [] OTHER -> 0

\* Array.prototype.sort with that comparator: a NaN result counts as 0 and
\* the sort is stable, so records without a rank keep their places.
sortByPriority(tcs) ==
    IF \A i \in 1..Len(tcs) : PriorityRank(tcs[i]) = 0
    THEN tcs
    ELSE SortSeq(tcs, LAMBDA a, b : PriorityRank(a) < PriorityRank(b))

ReverseSeq(s) == [i \in 1..Len(s) |-> s[Len(s) + 1 - i]]

\* An object carrying only what the arrangement prompt shows of a test
\* case: its id and its summary.
IdAndSummaryOnly(tc) ==
    [f \in CaseFields |-> IF f \in {"id", "summary"} THEN tc[f] ELSE Absent]

\* What the model can answer to the arrangement prompt, as the handler
\* sees it: text that is not JSON, JSON without arrangedTestCases, or JSON
\* whose arrangedTestCases is some array.
ArrangementAnswers(tcs) ==
    {[kind |-> "text", arrangedTestCases |-> <<>>],
     [kind |-> "noArray", arrangedTestCases |-> <<>>]}
    \cup {[kind |-> "json", arrangedTestCases |-> a] :
            a \in {tcs, ReverseSeq(tcs), SubSeq(tcs, 2, Len(tcs)),
                   [i \in 1..Len(tcs) |-> tcs[1]],
                   [i \in 1..Len(tcs) |-> IdAndSummaryOnly(tcs[i])],
                   [i \in 1..Len(tcs) |->
                       IF i = 1 THEN [tcs[i] EXCEPT !.summary = "Verify everything"]
                       ELSE tcs[i]]}}

\* applyIntelligentArrangement: JSON.parse or the read of .length throwing
\* and a different count fall back to sortByPriority(testCases); else the
\* array of the answer is returned as it is.
applyIntelligentArrangement(tcs, ans) ==
    IF ans.kind # "json" THEN sortByPriority(tcs)
    ELSE IF Len(ans.arrangedTestCases) # Len(tcs) THEN sortByPriority(tcs)
    ELSE ans.arrangedTestCases

\* A cell as the Sheets API stores it: undefined is sent as null and
\* leaves the (cleared) cell empty.
Cell(v) == IF v = Absent THEN "" ELSE v

\* updatedData: the header, then one row per arranged test case.
UpdatedData(arranged, header) ==
    <<header>> \o
    [i \in 1..Len(arranged) |->
        LET tc == arranged[i]
        IN  <<Cell(tc.id), Cell(tc.module), Cell(tc.submodule), Cell(tc.summary),
              Cell(tc.testSteps), Cell(tc.expectedResults),
              IF tc.actualResult = Absent THEN "" ELSE OrDefault(tc.actualResult, ""),
              Cell(tc.testCaseType), Cell(tc.environment), Cell(tc.status)>>]

NoArrangement ==
    [pc |-> "start", rows |-> <<>>, testCases |-> <<>>, arrangedTestCases |-> <<>>,
     cleared |-> FALSE, answer |-> NoAnswer]

ArrangeInit ==
    /\ sheet \in Sheets
    /\ arrangement = NoArrangement
    /\ appends = <<>>
    \* callGeminiWithRetry and its caller are not running
    /\ maxRetries = 0
    /\ baseDelay = 0
    /\ attempt = 0
    /\ lastError = Undefined
    /\ pc = "idle"
    /\ calls = 0
    /\ errors = <<>>
    /\ delays = <<>>
    /\ successAt = 0
    /\ returned = 0
    /\ thrown = Undefined
    /\ generating = "none"
    /\ completed = {}
    /\ response = NoResponse
    \* the filter and the parsers are not running
    /\ testCases = <<>>
    /\ existingTestCases = <<>>
    /\ cleaned = <<>>
    /\ uniqueCases = <<>>
    /\ seenSummaries = {}
    /\ seenStepsSignatures = {}
    /\ seenPurposes = {}
    /\ duplicateCount = 0
    /\ idx = 0
    /\ reasons = <<>>
    /\ validatedCases = <<>>
    /\ warnings = {}
    /\ vpc = "idle"
    /\ rawText = <<>>
    /\ parsedCases = NoResult
    /\ parsedScenarios = NoResult
    /\ prevText = <<>>
    /\ prevCases = NoResult
    /\ prevScenarios = NoResult
    /\ callNo = 0
    /\ ppc = "idle"
    /\ xs = <<>>
    /\ ys = <<>>
    /\ outX = <<>>
    /\ outY = <<>>
    /\ outXY = <<>>
    /\ hpc = "idle"
    /\ testCases2 = <<>>
    /\ existingTestCases2 = <<>>
    /\ cleaned2 = <<>>
    /\ uniqueCases2 = <<>>
    /\ seenSummaries2 = {}
    /\ seenStepsSignatures2 = {}
    /\ seenPurposes2 = {}
    /\ idx2 = 0
    /\ validatedCases2 = <<>>
    /\ vpc2 = "idle"
    \* no OAuth handler is running
    /\ userTokens = <<>>
    /\ credentials = "none"
    /\ reqs = <<>>
    /\ apiCalls = {}
    \* ProtectRoute is not running
    /\ cookie = "none"
    /\ users = {}
    /\ decoded = "none"
    /\ reqUser = "none"
    /\ statusSent = 0
    /\ nextCalled = FALSE
    /\ mpc = "idle"

\* values.get of A:J resolves: without data rows the handler answers that
\* there is nothing to arrange; else it maps the rows to test cases.
ReadTestCases ==
    /\ arrangement.pc = "start"
    /\ arrangement' =
          IF Len(sheet) <= 1
          THEN [arrangement EXCEPT !.rows = sheet, !.pc = "done",
                                   !.answer = Answer(200, "No test cases found to arrange")]
          ELSE [arrangement EXCEPT !.rows = sheet, !.testCases = CasesOfRows(sheet),
                                   !.pc = "read"]
    /\ UNCHANGED <<sheet, appends>>
    /\ UNCHANGED <<rvars, nvars, pvars, hvars, ivars, evars, avars, mvars>>

\* getAuthenticatedSheetsClient or values.get rejects: the catch answers 500.
ReadThrows ==
    /\ arrangement.pc = "start"
    /\ arrangement' = [arrangement EXCEPT !.pc = "done",
                          !.answer = Answer(500, "Failed to process custom prompt")]
    /\ UNCHANGED <<sheet, appends>>
    /\ UNCHANGED <<rvars, nvars, pvars, hvars, ivars, evars, avars, mvars>>

\* analyzePromptIntent resolves (with the model's analysis or its fallback).
AnalyzeIntent ==
    /\ arrangement.pc = "read"
    /\ arrangement' = [arrangement EXCEPT !.pc = "analyzed"]
    /\ UNCHANGED <<sheet, appends>>
    /\ UNCHANGED <<rvars, nvars, pvars, hvars, ivars, evars, avars, mvars>>

\* applyIntelligentArrangement resolves, for some answer of the model.
ApplyArrangement ==
    /\ arrangement.pc = "analyzed"
    /\ \E ans \in ArrangementAnswers(arrangement.testCases) :
          arrangement' = [arrangement EXCEPT
                             !.arrangedTestCases =
                                 applyIntelligentArrangement(arrangement.testCases, ans),
                             !.pc = "arranged"]
    /\ UNCHANGED <<sheet, appends>>
    /\ UNCHANGED <<rvars, nvars, pvars, hvars, ivars, evars, avars, mvars>>

\* values.clear of A:J resolves.
ClearValues ==
    /\ arrangement.pc = "arranged"
    /\ sheet' = <<>>
    /\ arrangement' = [arrangement EXCEPT !.cleared = TRUE, !.pc = "cleared"]
    /\ UNCHANGED appends
    /\ UNCHANGED <<rvars, nvars, pvars, hvars, ivars, evars, avars, mvars>>

\* values.clear rejects: updateSpreadsheetWithArrangement returns false and
\* processCustomPrompt answers 500.
ClearThrows ==
    /\ arrangement.pc = "arranged"
    /\ arrangement' = [arrangement EXCEPT !.pc = "done",
                          !.answer = Answer(500, "Failed to update spreadsheet")]
    /\ UNCHANGED <<sheet, appends>>
    /\ UNCHANGED <<rvars, nvars, pvars, hvars, ivars, evars, avars, mvars>>

\* values.update at A1 resolves: it returns true and the handler answers
\* success.
UpdateValues ==
    /\ arrangement.pc = "cleared"
    /\ sheet' = WrittenAt(sheet, 1,
                          UpdatedData(arrangement.arrangedTestCases, arrangement.rows[1]))
    /\ arrangement' = [arrangement EXCEPT !.pc = "done",
                          !.answer = Answer(200, "success: true")]
    /\ UNCHANGED appends
    /\ UNCHANGED <<rvars, nvars, pvars, hvars, ivars, evars, avars, mvars>>

\* values.update rejects after the clear: it returns false and the handler
\* answers 500.
UpdateThrows ==
    /\ arrangement.pc = "cleared"
    /\ arrangement' = [arrangement EXCEPT !.pc = "done",
                          !.answer = Answer(500, "Failed to update spreadsheet")]
    /\ UNCHANGED <<sheet, appends>>
    /\ UNCHANGED <<rvars, nvars, pvars, hvars, ivars, evars, avars, mvars>>

ArrangeNext ==
    \/ ReadTestCases
    \/ ReadThrows
    \/ AnalyzeIntent
    \/ ApplyArrangement
    \/ ClearValues
    \/ ClearThrows
    \/ UpdateValues
    \/ UpdateThrows

ArrangeSpec == ArrangeInit /\ [][ArrangeNext]_vars

\* How often a value occurs in a sequence.
Occurrences(s, x) == Cardinality({i \in 1..Len(s) : s[i] = x})

IsPermutation(s, t) ==
    /\ Len(s) = Len(t)
    /\ \A x \in Range(s) \cup Range(t) : Occurrences(s, x) = Occurrences(t, x)

\* A test case without its rowIndex, which is its place and no field of it.
Content(tc) == [f \in CaseFields \ {"rowIndex"} |-> tc[f]]

ContentsOf(tcs) == [i \in 1..Len(tcs) |-> Content(tcs[i])]

\* C27: after the answer success the header is still the first row and the
\* data rows, read back as test cases, are a permutation of the test cases
\* read before the arrangement.
C27_ArrangementIsPermutation ==
    arrangement.answer = Answer(200, "success: true") =>
        /\ Len(sheet) >= 1
        /\ sheet[1] = arrangement.rows[1]
        /\ IsPermutation(ContentsOf(CasesOfRows(sheet)),
                         ContentsOf(arrangement.testCases))

\* C28: when updateSpreadsheetWithArrangement returned false the sheet
\* holds the rows it held before the call.
C28_FailedUpdateKeepsRows ==
    arrangement.answer = Answer(500, "Failed to update spreadsheet") =>
        sheet = arrangement.rows

\* ======================================================================
\* ProtectRoute, the middleware in front of every route but /callback.
\* ======================================================================

UserIds == {"u1", "u2", "u3"}

NoCookie == [kind |-> "none", signedWith |-> "", expired |-> FALSE, userId |-> ""]

\* A cookie value that is no JWT at all.
Malformed == [kind |-> "malformed", signedWith |-> "", expired |-> FALSE, userId |-> ""]

\* A JWT: the secret it was signed with, whether its exp has passed, and
\* the userId of its payload (Absent when the payload has none).
Jwts ==
    [kind : {"jwt"}, signedWith : {"JWT_SECRET", "other"}, expired : BOOLEAN,
     userId : UserIds \cup {Absent}]

Cookies == {NoCookie, Malformed} \cup Jwts

\* jwt.verify(token, process.env.JWT_SECRET): it throws for a malformed
\* token, a wrong signature or an expired token, else returns the payload.
Verifies(c) == c.kind = "jwt" /\ c.signedWith = "JWT_SECRET" /\ ~c.expired

ProtectInit ==
    /\ cookie \in Cookies
    /\ users \in SUBSET UserIds
    /\ decoded = "none"
    /\ reqUser = "none"
    /\ statusSent = 0
    /\ nextCalled = FALSE
    /\ mpc = "start"
    \* callGeminiWithRetry and its caller are not running
    /\ maxRetries = 0
    /\ baseDelay = 0
    /\ attempt = 0
    /\ lastError = Undefined
    /\ pc = "idle"
    /\ calls = 0
    /\ errors = <<>>
    /\ delays = <<>>
    /\ successAt = 0
    /\ returned = 0
    /\ thrown = Undefined
    /\ generating = "none"
    /\ completed = {}
    /\ response = NoResponse
    \* the filter and the parsers are not running
    /\ testCases = <<>>
    /\ existingTestCases = <<>>
    /\ cleaned = <<>>
    /\ uniqueCases = <<>>
    /\ seenSummaries = {}
    /\ seenStepsSignatures = {}
    /\ seenPurposes = {}
    /\ duplicateCount = 0
    /\ idx = 0
    /\ reasons = <<>>
    /\ validatedCases = <<>>
    /\ warnings = {}
    /\ vpc = "idle"
    /\ rawText = <<>>
    /\ parsedCases = NoResult
    /\ parsedScenarios = NoResult
    /\ prevText = <<>>
    /\ prevCases = NoResult
    /\ prevScenarios = NoResult
    /\ callNo = 0
    /\ ppc = "idle"
    /\ xs = <<>>
    /\ ys = <<>>
    /\ outX = <<>>
    /\ outY = <<>>
    /\ outXY = <<>>
    /\ hpc = "idle"
    /\ testCases2 = <<>>
    /\ existingTestCases2 = <<>>
    /\ cleaned2 = <<>>
    /\ uniqueCases2 = <<>>
    /\ seenSummaries2 = {}
    /\ seenStepsSignatures2 = {}
    /\ seenPurposes2 = {}
    /\ idx2 = 0
    /\ validatedCases2 = <<>>
    /\ vpc2 = "idle"
    \* no OAuth handler is running
    /\ userTokens = <<>>
    /\ credentials = "none"
    /\ reqs = <<>>
    /\ apiCalls = {}
    \* no sheet writer is running
    /\ sheet = <<>>
    /\ appends = <<>>
    /\ arrangement = <<>>

\* The code up to the await: 401 without a cookie, 401 from the catch when
\* jwt.verify throws, else User.findById(decoded.userId) is started.
VerifyToken ==
    /\ mpc = "start"
    /\ IF cookie = NoCookie \/ ~Verifies(cookie)
       THEN /\ statusSent' = 401
            /\ mpc' = "done"
            /\ UNCHANGED decoded
       ELSE /\ decoded' = [userId |-> cookie.userId]
            /\ mpc' = "lookup"
            /\ UNCHANGED statusSent
    /\ UNCHANGED <<cookie, users, reqUser, nextCalled>>
    /\ UNCHANGED <<rvars, nvars, pvars, hvars, ivars, evars, avars, svars>>

\* A variant of FindByIdResolves in which the 401 for an unknown user does
\* not return.
FindByIdResolvesAndGoesOn ==
    /\ mpc = "lookup"
    /\ IF decoded.userId \notin users
       THEN statusSent' = 401
       ELSE UNCHANGED statusSent
    /\ reqUser' = decoded.userId
    /\ nextCalled' = TRUE
    /\ mpc' = "done"
    /\ UNCHANGED <<cookie, users, decoded>>
    /\ UNCHANGED <<rvars, nvars, pvars, hvars, ivars, evars, avars, svars>>

\* findById resolves: null gives 401 and returns; a user is put in
\* req.user and next() is called.
FindByIdResolves ==
    /\ mpc = "lookup"
    /\ IF decoded.userId \notin users
       THEN /\ statusSent' = 401
            /\ UNCHANGED <<reqUser, nextCalled>>
       ELSE /\ reqUser' = decoded.userId
            /\ nextCalled' = TRUE
            /\ UNCHANGED statusSent
    /\ mpc' = "done"
    /\ UNCHANGED <<cookie, users, decoded>>
    /\ UNCHANGED <<rvars, nvars, pvars, hvars, ivars, evars, avars, svars>>

\* findById rejects (a cast error, the database unreachable): the catch
\* answers 401.
FindByIdRejects ==
    /\ mpc = "lookup"
    /\ statusSent' = 401
    /\ mpc' = "done"
    /\ UNCHANGED <<cookie, users, decoded, reqUser, nextCalled>>
    /\ UNCHANGED <<rvars, nvars, pvars, hvars, ivars, evars, avars, svars>>

\* The handler registered behind ProtectRoute runs: Express runs it when
\* next() is called.
HandlerRuns ==
    /\ mpc = "done"
    /\ nextCalled
    /\ mpc' = "handler"
    /\ UNCHANGED <<cookie, users, decoded, reqUser, statusSent, nextCalled>>
    /\ UNCHANGED <<rvars, nvars, pvars, hvars, ivars, evars, avars, svars>>

ProtectNext == VerifyToken \/ FindByIdResolves \/ FindByIdRejects \/ HandlerRuns

ProtectSpec == ProtectInit /\ [][ProtectNext]_vars

\* The request may pass: its cookie verifies and names an existing user.
MayPass == Verifies(cookie) /\ cookie.userId \in users

\* C29: the handler runs, and next() is called, only for a cookie that
\* verifies against JWT_SECRET and names an existing user; a request that
\* ProtectRoute finished without calling next() got 401; next() and a 401
\* never both happen.
C29_ProtectRoute ==
    /\ (nextCalled \/ mpc = "handler") => (MayPass /\ reqUser = cookie.userId)
    /\ (mpc = "done" /\ ~MayPass) => (statusSent = 401 /\ ~nextCalled)
    /\ (mpc \in {"done", "handler"} /\ ~nextCalled) => statusSent = 401
    /\ ~(nextCalled /\ statusSent = 401)

\* A token that verifies but names a user that does not exist was answered
\* 401 after the lookup.
C29_Witness ==
    /\ mpc = "done"
    /\ Verifies(cookie)
    /\ cookie.userId \in UserIds \ users
    /\ decoded.userId = cookie.userId
    /\ statusSent = 401
    /\ ~nextCalled

====
